---- MODULE Spec2Model ----
(***************************************************************************)
(* testflow-ai flow execution engine: FlowExecutor (executeFlow,           *)
(* executeStep, poll, runAiAssertion, resolveUrl, resolveVariables) and    *)
(* the public utilities extractValue, interpolate and evaluateAssertion.   *)
(*                                                                         *)
(* JSON values are tagged tuples.  A JavaScript string is a sequence of    *)
(* one-character strings, so that interpolation, JSON.stringify and        *)
(* JSON.parse work on characters as the code does.                         *)
(***************************************************************************)
EXTENDS Integers, Sequences, FiniteSets, TLC

(***************************************************************************)
(* JSON values                                                             *)
(***************************************************************************)
Undefined == <<"undefined">>
Null == <<"null">>
Bool(b) == <<"bool", b>>
Num(n) == <<"num", n>>
Str(s) == <<"str", s>>
Arr(xs) == <<"arr", xs>>
Obj(kvs) == <<"obj", kvs>>
Tag(v) == v[1]
Val(v) == v[2]

IsObject(v) == Tag(v) \in {"arr", "obj"}
\* JavaScript truthiness
Truthy(v) ==
    CASE Tag(v) = "undefined" -> FALSE
      [] Tag(v) = "null" -> FALSE
      [] Tag(v) = "bool" -> Val(v)
      [] Tag(v) = "num" -> Val(v) # 0
      [] Tag(v) = "str" -> Val(v) # <<>>
      [] OTHER -> TRUE

(***************************************************************************)
(* Characters and strings                                                  *)
(***************************************************************************)
Digits == <<"0", "1", "2", "3", "4", "5", "6", "7", "8", "9">>
DigitSet == {Digits[i] : i \in 1..10}
Letters ==
    {"a", "b", "c", "d", "e", "f", "g", "h", "i", "j", "k", "l", "m",
     "n", "o", "p", "q", "r", "s", "t", "u", "v", "w", "x", "y", "z",
     "A", "B", "C", "D", "E", "F", "G", "H", "I", "J", "K", "L", "M",
     "N", "O", "P", "Q", "R", "S", "T", "U", "V", "W", "X", "Y", "Z"}
\* the regular expression class \w
IsWordChar(c) == c \in Letters \cup DigitSet \cup {"_"}
IsDigit(c) == c \in DigitSet
DigitVal(c) == CHOOSE d \in 0..9 : Digits[d + 1] = c

AllWord(s) == \A i \in 1..Len(s) : IsWordChar(s[i])
AllDigits(s) == \A i \in 1..Len(s) : IsDigit(s[i])

\* index of the first occurrence of character c in s at or after from, 0 if none
IndexOf(s, c, from) ==
    LET hits == {i \in from..Len(s) : s[i] = c}
    IN IF hits = {} THEN 0 ELSE CHOOSE i \in hits : \A j \in hits : i <= j

StartsWith(s, p) == Len(s) >= Len(p) /\ SubSeq(s, 1, Len(p)) = p

\* String.prototype.includes
Includes(s, p) ==
    \E i \in 1..(Len(s) + 1) :
        i + Len(p) - 1 <= Len(s) /\ SubSeq(s, i, i + Len(p) - 1) = p

\* String.prototype.trim (the whitespace of the alphabet is the blank)
RECURSIVE TrimLeft(_)
TrimLeft(s) == IF s # <<>> /\ s[1] = " " THEN TrimLeft(Tail(s)) ELSE s
RECURSIVE TrimRight(_)
TrimRight(s) ==
    IF s # <<>> /\ s[Len(s)] = " " THEN TrimRight(SubSeq(s, 1, Len(s) - 1)) ELSE s
Trim(s) == TrimRight(TrimLeft(s))

\* String.prototype.split with a one-character separator
RECURSIVE Split(_, _)
Split(s, sep) ==
    LET i == IndexOf(s, sep, 1)
    IN IF i = 0 THEN <<s>>
       ELSE <<SubSeq(s, 1, i - 1)>> \o Split(SubSeq(s, i + 1, Len(s)), sep)

\* String(n) for a non-negative integer
RECURSIVE NumToStr(_)
NumToStr(n) ==
    IF n < 10 THEN <<Digits[n + 1]>>
    ELSE NumToStr(n \div 10) \o <<Digits[(n % 10) + 1]>>

\* parseInt(s, 10) for a string of digits
RECURSIVE ParseInt(_)
ParseInt(s) ==
    IF s = <<>> THEN 0
    ELSE 10 * ParseInt(SubSeq(s, 1, Len(s) - 1)) + DigitVal(s[Len(s)])

\* the text of an array index: "0" or digits without a leading zero
IsIndexKey(s) == s # <<>> /\ AllDigits(s) /\ (Len(s) = 1 \/ s[1] # "0")

KeyLength == <<"l", "e", "n", "g", "t", "h">>

(***************************************************************************)
(* Objects: a sequence of <<key, value>> pairs in insertion order          *)
(***************************************************************************)
HasKey(kvs, k) == \E i \in 1..Len(kvs) : kvs[i][1] = k
KeyIndex(kvs, k) == CHOOSE i \in 1..Len(kvs) : kvs[i][1] = k
Lookup(kvs, k) == IF HasKey(kvs, k) THEN kvs[KeyIndex(kvs, k)][2] ELSE Undefined
\* obj[k] = v: an existing key keeps its place, a new key is appended
SetKey(kvs, k, v) ==
    IF HasKey(kvs, k)
    THEN [kvs EXCEPT ![KeyIndex(kvs, k)] = <<k, v>>]
    ELSE Append(kvs, <<k, v>>)
Keys(kvs) == {kvs[i][1] : i \in 1..Len(kvs)}

\* a method every value inherits from its prototype
Function(name) == <<"function", name>>
\* names of such methods: toString and valueOf stand for all of them
InheritedKeys == { <<"t", "o", "S", "t", "r", "i", "n", "g">>,
                   <<"v", "a", "l", "u", "e", "O", "f">> }
\* value[key] when value has no own property key
Inherited(key) == IF key \in InheritedKeys THEN Function(key) ELSE Undefined

\* value[key] for a value that is neither null nor undefined
GetProp(v, key) ==
    CASE Tag(v) = "obj" ->
            IF HasKey(Val(v), key) THEN Lookup(Val(v), key) ELSE Inherited(key)
      [] Tag(v) = "arr" ->
            IF key = KeyLength THEN Num(Len(Val(v)))
            ELSE IF IsIndexKey(key) /\ ParseInt(key) < Len(Val(v))
                 THEN Val(v)[ParseInt(key) + 1]
                 ELSE Inherited(key)
      [] Tag(v) = "str" ->
            IF key = KeyLength THEN Num(Len(Val(v)))
            ELSE IF IsIndexKey(key) /\ ParseInt(key) < Len(Val(v))
                 THEN Str(<<Val(v)[ParseInt(key) + 1]>>)
                 ELSE Inherited(key)
      [] OTHER -> Inherited(key)

(***************************************************************************)
(* extractValue                                                            *)
(***************************************************************************)
\* part.match(/^(\w+)\[(\d+)\]$/)
ArrayMatch(part) ==
    LET i == IndexOf(part, "[", 1)
    IN /\ i > 1
       /\ AllWord(SubSeq(part, 1, i - 1))
       /\ Len(part) >= i + 2
       /\ part[Len(part)] = "]"
       /\ AllDigits(SubSeq(part, i + 1, Len(part) - 1))
ArrayMatchName(part) == SubSeq(part, 1, IndexOf(part, "[", 1) - 1)
ArrayMatchIndex(part) ==
    ParseInt(SubSeq(part, IndexOf(part, "[", 1) + 1, Len(part) - 1))

\* current[parseInt(arrayMatch[2], 10)] for an array
ArrayAt(xs, idx) == IF idx < Len(xs) THEN xs[idx + 1] ELSE Undefined

RECURSIVE ExtractParts(_, _, _)
RECURSIVE ExtractIndexed(_, _, _)
\* a mutation of ExtractIndexed: the index is read from whatever value the
\* name gives, array or not
ExtractIndexedAny(current, parts, k) ==
    IF Tag(current) \in {"null", "undefined"} THEN Undefined
    ELSE ExtractParts(GetProp(current, NumToStr(ArrayMatchIndex(parts[k]))),
                      parts, k + 1)
\* the for loop of extractValue from part k on
ExtractParts(current, parts, k) ==
    IF k > Len(parts) THEN current
    ELSE IF Tag(current) \in {"null", "undefined"} THEN Undefined
    ELSE IF ArrayMatch(parts[k])
    THEN ExtractIndexed(GetProp(current, ArrayMatchName(parts[k])), parts, k)
    ELSE ExtractParts(GetProp(current, parts[k]), parts, k + 1)
\* the arrayMatch branch, once current is current[arrayMatch[1]]
ExtractIndexed(current, parts, k) ==
    IF Tag(current) = "arr"
    THEN ExtractParts(ArrayAt(Val(current), ArrayMatchIndex(parts[k])), parts, k + 1)
    ELSE Undefined

extractValue(obj, path) == ExtractParts(obj, Split(path, "."), 1)

(***************************************************************************)
(* JSON.stringify and String                                               *)
(***************************************************************************)
Quote == "\""
Backslash == "\\"

RECURSIVE EscapeStr(_)
EscapeStr(s) ==
    IF s = <<>> THEN <<>>
    ELSE (IF s[1] \in {Quote, Backslash} THEN <<Backslash, s[1]>> ELSE <<s[1]>>)
         \o EscapeStr(Tail(s))
QuoteStr(s) == <<Quote>> \o EscapeStr(s) \o <<Quote>>

RECURSIVE JsonText(_)
RECURSIVE JsonElems(_, _)
RECURSIVE JsonMembers(_, _, _)
\* the text JSON.stringify gives for a value other than undefined
JsonText(v) ==
    CASE Tag(v) = "null" -> <<"n", "u", "l", "l">>
      [] Tag(v) \in {"undefined", "function"} -> <<"n", "u", "l", "l">>
      [] Tag(v) = "bool" ->
            IF Val(v) THEN <<"t", "r", "u", "e">> ELSE <<"f", "a", "l", "s", "e">>
      [] Tag(v) = "num" -> NumToStr(Val(v))
      [] Tag(v) = "str" -> QuoteStr(Val(v))
      [] Tag(v) = "arr" -> <<"[">> \o JsonElems(Val(v), 1) \o <<"]">>
      [] Tag(v) = "obj" -> <<"{">> \o JsonMembers(Val(v), 1, TRUE) \o <<"}">>
\* array elements; an undefined element and a function are written null
JsonElems(xs, k) ==
    IF k > Len(xs) THEN <<>>
    ELSE (IF k > 1 THEN <<",">> ELSE <<>>) \o JsonText(xs[k]) \o JsonElems(xs, k + 1)
\* object members; a member whose value is undefined or a function is left out
JsonMembers(kvs, k, first) ==
    IF k > Len(kvs) THEN <<>>
    ELSE IF Tag(kvs[k][2]) \in {"undefined", "function"}
    THEN JsonMembers(kvs, k + 1, first)
    ELSE (IF first THEN <<>> ELSE <<",">>)
         \o QuoteStr(kvs[k][1]) \o <<":">> \o JsonText(kvs[k][2])
         \o JsonMembers(kvs, k + 1, FALSE)

\* JSON.stringify(v): undefined for undefined and for a function, else a string
JSONstringify(v) ==
    IF Tag(v) \in {"undefined", "function"} THEN Undefined ELSE Str(JsonText(v))

RECURSIVE StringOf(_)
RECURSIVE JoinElems(_, _)
\* String(v)
StringOf(v) ==
    CASE Tag(v) = "undefined" -> <<"u", "n", "d", "e", "f", "i", "n", "e", "d">>
      [] Tag(v) = "null" -> <<"n", "u", "l", "l">>
      [] Tag(v) = "bool" ->
            IF Val(v) THEN <<"t", "r", "u", "e">> ELSE <<"f", "a", "l", "s", "e">>
      [] Tag(v) = "num" -> NumToStr(Val(v))
      [] Tag(v) = "str" -> Val(v)
      [] Tag(v) = "arr" -> JoinElems(Val(v), 1)
      [] Tag(v) = "function" ->
            <<"function ">> \o Val(v) \o <<"() { [native code] }">>
      [] Tag(v) = "obj" ->
            <<"[", "o", "b", "j", "e", "c", "t", " ", "O", "b", "j", "e", "c", "t", "]">>
\* Array.prototype.join(","): null and undefined elements give the empty string
JoinElems(xs, k) ==
    IF k > Len(xs) THEN <<>>
    ELSE (IF k > 1 THEN <<",">> ELSE <<>>)
         \o (IF Tag(xs[k]) \in {"null", "undefined"} THEN <<>> ELSE StringOf(xs[k]))
         \o JoinElems(xs, k + 1)

(***************************************************************************)
(* interpolate                                                             *)
(***************************************************************************)
\* one segment of a variable path: \w+(?:\[\d+\])?
IsSegment(seg) == (seg # <<>> /\ AllWord(seg)) \/ ArrayMatch(seg)
\* \w+(?:\[\d+\])?(?:\.\w+(?:\[\d+\])?)*
IsVarPath(p) ==
    LET segs == Split(p, ".") IN \A i \in 1..Len(segs) : IsSegment(segs[i])

\* the index of the closing brace of a ${path} token that starts at i, 0 if none
TokenEnd(s, i) ==
    IF i + 1 <= Len(s) /\ s[i] = "$" /\ s[i + 1] = "{"
    THEN LET j == IndexOf(s, "}", i + 2)
         IN IF j > 0 /\ IsVarPath(SubSeq(s, i + 2, j - 1)) THEN j ELSE 0
    ELSE 0

\* a mutation of ReplacementFor: a token without a value is removed
ReplacementForDropping(varPath, value) ==
    IF value = Undefined THEN <<>>
    ELSE IF IsObject(value) THEN JsonText(value)
    ELSE StringOf(value)

\* what the replacement callback returns for the value of varPath
ReplacementFor(varPath, value) ==
    IF value = Undefined THEN <<"$", "{">> \o varPath \o <<"}">>
    ELSE IF IsObject(value) THEN JsonText(value)
    ELSE StringOf(value)

\* the replacement callback of interpolate
Replacement(varPath, variables) ==
    ReplacementFor(varPath, extractValue(variables, varPath))

RECURSIVE ReplaceFrom(_, _, _)
RECURSIVE ReplaceAt(_, _, _, _)
\* a mutation of ReplaceAt: replace without the g flag, the first token only
ReplaceAtFirst(s, i, j, variables) ==
    IF j > 0
    THEN Replacement(SubSeq(s, i + 2, j - 1), variables)
         \o SubSeq(s, j + 1, Len(s))
    ELSE <<s[i]>> \o ReplaceFrom(s, i + 1, variables)
\* str.replace(/\$\{...\}/g, callback) from index i on
ReplaceFrom(s, i, variables) ==
    IF i > Len(s) THEN <<>> ELSE ReplaceAt(s, i, TokenEnd(s, i), variables)
\* at index i, where a token ends at j (0: no token starts at i)
ReplaceAt(s, i, j, variables) ==
    IF j > 0
    THEN Replacement(SubSeq(s, i + 2, j - 1), variables)
         \o ReplaceFrom(s, j + 1, variables)
    ELSE <<s[i]>> \o ReplaceFrom(s, i + 1, variables)

\* interpolate(str, variables); str is a JSON value, variables an object
interpolate(str, variables) ==
    IF ~Truthy(str) THEN Str(<<>>)
    ELSE IF Tag(str) # "str" THEN str
    ELSE Str(ReplaceFrom(Val(str), 1, variables))

(***************************************************************************)
(* JSON.parse: a parse result is <<"ok", value, next index>> or ParseFail  *)
(***************************************************************************)
ParseFail == <<"err", Undefined, 0>>
ParseOk(v, i) == <<"ok", v, i>>

RECURSIVE SkipWs(_, _)
SkipWs(s, i) == IF i <= Len(s) /\ s[i] = " " THEN SkipWs(s, i + 1) ELSE i

\* the end of the digits that start at i
RECURSIVE DigitsEnd(_, _)
DigitsEnd(s, i) == IF i <= Len(s) /\ IsDigit(s[i]) THEN DigitsEnd(s, i + 1) ELSE i

\* a string body from i (after the opening quote): <<"ok", chars, index after quote>>
RECURSIVE ParseChars(_, _, _)
ParseChars(s, i, acc) ==
    IF i > Len(s) THEN ParseFail
    ELSE IF s[i] = Quote THEN ParseOk(acc, i + 1)
    ELSE IF s[i] = Backslash
    THEN IF i + 1 <= Len(s) /\ s[i + 1] \in {Quote, Backslash, "/"}
         THEN ParseChars(s, i + 2, Append(acc, s[i + 1]))
         ELSE ParseFail
    ELSE ParseChars(s, i + 1, Append(acc, s[i]))

Literal(s, i, word) == i + Len(word) - 1 <= Len(s) /\ SubSeq(s, i, i + Len(word) - 1) = word

\* the value result of a string token
StringResult(r) == IF r[1] = "ok" THEN ParseOk(Str(r[2]), r[3]) ELSE ParseFail
\* the value result of the digits from i up to e
NumberResult(s, i, e) == ParseOk(Num(ParseInt(SubSeq(s, i, e - 1))), e)

RECURSIVE ParseValue(_, _)
RECURSIVE ParseElems(_, _, _)
RECURSIVE ParseMembers(_, _, _)
\* after an element r of an array: the closing bracket or a comma at j
ElemNext(s, j, acc) ==
    IF j > Len(s) THEN ParseFail
    ELSE IF s[j] = "]" THEN ParseOk(Arr(acc), j + 1)
    ELSE IF s[j] = "," THEN ParseElems(s, j + 1, acc)
    ELSE ParseFail
ElemParsed(s, r, acc) ==
    IF r[1] # "ok" THEN ParseFail
    ELSE ElemNext(s, SkipWs(s, r[3]), Append(acc, r[2]))
\* the elements of an array from i, up to and including the closing bracket
ParseElems(s, i, acc) == ElemParsed(s, ParseValue(s, i), acc)

\* after a member of an object: the closing brace or a comma at j
MemberNext(s, j, acc) ==
    IF j > Len(s) THEN ParseFail
    ELSE IF s[j] = "}" THEN ParseOk(Obj(acc), j + 1)
    ELSE IF s[j] = "," THEN ParseMembers(s, j + 1, acc)
    ELSE ParseFail
MemberParsed(s, key, r, acc) ==
    IF r[1] # "ok" THEN ParseFail
    ELSE MemberNext(s, SkipWs(s, r[3]), SetKey(acc, key, r[2]))
\* the colon at c and the value of the member after it
MemberValue(s, key, c, acc) ==
    IF c > Len(s) \/ s[c] # ":" THEN ParseFail
    ELSE MemberParsed(s, key, ParseValue(s, c + 1), acc)
MemberColon(s, k, acc) ==
    IF k[1] # "ok" THEN ParseFail ELSE MemberValue(s, k[2], SkipWs(s, k[3]), acc)
\* the key of a member, a string that starts at i
MemberKey(s, i, acc) ==
    IF i > Len(s) \/ s[i] # Quote THEN ParseFail
    ELSE MemberColon(s, ParseChars(s, i + 1, <<>>), acc)
\* the members of an object from i0, up to and including the closing brace
ParseMembers(s, i0, acc) == MemberKey(s, SkipWs(s, i0), acc)

\* after an opening brace, j the next index that holds no blank
ParseObject(s, j) ==
    IF j <= Len(s) /\ s[j] = "}" THEN ParseOk(Obj(<<>>), j + 1)
    ELSE ParseMembers(s, j, <<>>)
\* after an opening bracket, j the next index that holds no blank
ParseArray(s, j) ==
    IF j <= Len(s) /\ s[j] = "]" THEN ParseOk(Arr(<<>>), j + 1)
    ELSE ParseElems(s, j, <<>>)
\* the value that starts at i
ParseValueAt(s, i) ==
    IF i > Len(s) THEN ParseFail
    ELSE IF s[i] = "{" THEN ParseObject(s, SkipWs(s, i + 1))
    ELSE IF s[i] = "[" THEN ParseArray(s, SkipWs(s, i + 1))
    ELSE IF s[i] = Quote THEN StringResult(ParseChars(s, i + 1, <<>>))
    ELSE IF IsDigit(s[i])
    THEN NumberResult(s, i, IF s[i] = "0" THEN i + 1 ELSE DigitsEnd(s, i))
    ELSE IF Literal(s, i, <<"t", "r", "u", "e">>) THEN ParseOk(Bool(TRUE), i + 4)
    ELSE IF Literal(s, i, <<"f", "a", "l", "s", "e">>) THEN ParseOk(Bool(FALSE), i + 5)
    ELSE IF Literal(s, i, <<"n", "u", "l", "l">>) THEN ParseOk(Null, i + 4)
    ELSE ParseFail
ParseValue(s, i0) == ParseValueAt(s, SkipWs(s, i0))

\* the whole text is one value
WholeText(s, r) == IF r[1] = "ok" /\ SkipWs(s, r[3]) > Len(s) THEN r ELSE ParseFail
\* JSON.parse(text): <<"ok", value, _>> or ParseFail (a SyntaxError)
JSONparse(s) == WholeText(s, ParseValue(s, 1))

(***************************************************************************)
(* Results of code that may throw: <<"ok", value>> or <<"throw", message>> *)
(***************************************************************************)
Ok(v) == <<"ok", v>>
Throw(msg) == <<"throw", msg>>
IsThrow(r) == r[1] = "throw"

\* (error as AxiosError).message || String(error), for an Error with this message
ErrorString(msg) == IF msg # "" THEN msg ELSE "Error"

(***************************************************************************)
(* FlowExecutor.resolveVariables, parseJsonStrings, resolveUrl             *)
(***************************************************************************)
LooksLikeJson(s) ==
    StartsWith(Trim(s), <<"{">>) \/ StartsWith(Trim(s), <<"[">>)
\* try { return JSON.parse(str) } catch { keep as string }
ParsedOr(r, str) == IF r[1] = "ok" THEN r[2] ELSE str
\* a mutation of TryParse: every string that parses is replaced
TryParseAny(str) == ParsedOr(JSONparse(Val(str)), str)
\* a string that looks like JSON is replaced by what it parses to
TryParse(str) ==
    IF LooksLikeJson(Val(str)) THEN ParsedOr(JSONparse(Val(str)), str) ELSE str

RECURSIVE resolveVariables(_, _)
RECURSIVE ResolveElems(_, _, _)
RECURSIVE ResolveEntries(_, _, _)
\* a mutation of ResolveElems: the elements of an array are left as they are
ResolveElemsShallow(xs, k, variables) == SubSeq(xs, k, Len(xs))
resolveVariables(obj, variables) ==
    CASE Tag(obj) = "str" -> TryParse(interpolate(obj, variables))
      [] Tag(obj) = "arr" -> Arr(ResolveElems(Val(obj), 1, variables))
      [] Tag(obj) = "obj" -> Obj(ResolveEntries(Val(obj), 1, variables))
      [] OTHER -> obj
ResolveElems(xs, k, variables) ==
    IF k > Len(xs) THEN <<>>
    ELSE <<resolveVariables(xs[k], variables)>> \o ResolveElems(xs, k + 1, variables)
ResolveEntries(kvs, k, variables) ==
    IF k > Len(kvs) THEN <<>>
    ELSE <<<<kvs[k][1], resolveVariables(kvs[k][2], variables)>>>>
         \o ResolveEntries(kvs, k + 1, variables)

RECURSIVE parseJsonStrings(_)
RECURSIVE ParseJsonElems(_, _)
RECURSIVE ParseJsonEntries(_, _)
parseJsonStrings(obj) ==
    CASE Tag(obj) = "str" -> TryParse(obj)
      [] Tag(obj) = "arr" -> Arr(ParseJsonElems(Val(obj), 1))
      [] Tag(obj) = "obj" -> Obj(ParseJsonEntries(Val(obj), 1))
      [] OTHER -> obj
ParseJsonElems(xs, k) ==
    IF k > Len(xs) THEN <<>>
    ELSE <<parseJsonStrings(xs[k])>> \o ParseJsonElems(xs, k + 1)
ParseJsonEntries(kvs, k) ==
    IF k > Len(kvs) THEN <<>>
    ELSE <<<<kvs[k][1], parseJsonStrings(kvs[k][2])>>>> \o ParseJsonEntries(kvs, k + 1)

\* a project context is NoContext or <<"context", baseUrls>>
NoContext == <<"nocontext", <<>>>>
Context(baseUrls) == <<"context", baseUrls>>

Http == <<"h", "t", "t", "p", ":", "/", "/">>
Https == <<"h", "t", "t", "p", "s", ":", "/", "/">>

\* url.match(/^\{(\w+)\}(.*)$/): the index of the closing brace, 0 if no match
BaseKeyEnd(url) ==
    IF url # <<>> /\ url[1] = "{"
    THEN LET j == IndexOf(url, "}", 2)
         IN IF j > 2 /\ AllWord(SubSeq(url, 2, j - 1)) THEN j ELSE 0
    ELSE 0

\* a mutation of resolveUrl: the {key} prefix is not looked up
resolveUrlNoKey(url, context) ==
    IF Tag(url) # "str" THEN Throw("TypeError: url.startsWith is not a function")
    ELSE IF StartsWith(Val(url), Http) \/ StartsWith(Val(url), Https) THEN Ok(url)
    ELSE IF context # NoContext /\ context[2] # <<>> /\ Truthy(context[2][1][2])
    THEN Ok(Str(Val(context[2][1][2]) \o Val(url)))
    ELSE Ok(url)

\* resolveUrl(url): a string, or a TypeError when url is not a string
resolveUrl(url, context) ==
    IF Tag(url) # "str" THEN Throw("TypeError: url.startsWith is not a function")
    ELSE LET u == Val(url)
             j == BaseKeyEnd(u)
             base == IF j > 0 /\ context # NoContext
                     THEN Lookup(context[2], SubSeq(u, 2, j - 1))
                     ELSE Undefined
             defaultBase == IF context # NoContext /\ context[2] # <<>>
                            THEN context[2][1][2]
                            ELSE Undefined
         IN IF StartsWith(u, Http) \/ StartsWith(u, Https) THEN Ok(url)
            ELSE IF Truthy(base) THEN Ok(Str(Val(base) \o SubSeq(u, j + 1, Len(u))))
            ELSE IF Truthy(defaultBase) THEN Ok(Str(Val(defaultBase) \o u))
            ELSE Ok(url)

(***************************************************************************)
(* evaluateAssertion                                                       *)
(***************************************************************************)
\* new RegExp(p) throws a SyntaxError: an unterminated character class, or a
\* backslash at the end of the pattern
RegExpInvalid(p) ==
    \/ \E i \in 1..Len(p) : p[i] = "[" /\ IndexOf(p, "]", i + 1) = 0
    \/ (p # <<>> /\ p[Len(p)] = Backslash)
\* new RegExp(p).test(s) for a pattern of literal characters and the wildcard "."
RegExpTest(p, s) ==
    \E i \in 1..(Len(s) + 1) :
        /\ i + Len(p) - 1 <= Len(s)
        /\ \A k \in 1..Len(p) : p[k] = "." \/ p[k] = s[i + k - 1]

\* Number(v) where the comparison needs it; -1 stands for NaN
ToNumber(v) ==
    CASE Tag(v) = "num" -> Val(v)
      [] Tag(v) = "null" -> 0
      [] Tag(v) = "bool" -> IF Val(v) THEN 1 ELSE 0
      [] Tag(v) = "str" ->
            IF Trim(Val(v)) = <<>> THEN 0
            ELSE IF AllDigits(Trim(Val(v))) THEN ParseInt(Trim(Val(v)))
            ELSE -1
      [] OTHER -> -1

\* `${JSON.stringify(v)}` inside a template literal
JsonShown(v) ==
    IF Tag(v) \in {"undefined", "function"} THEN StringOf(Undefined) ELSE JsonText(v)

\* Array.prototype.includes: SameValueZero, so objects match by identity only
ArrayIncludes(xs, v) ==
    \E i \in 1..Len(xs) : xs[i] = v /\ ~IsObject(v)

\* the success flag each operator computes (matches: for a valid pattern)
OperatorSuccess(assertion, actual) ==
    LET v == assertion.value
        op == assertion.operator
    IN CASE op = "equals" -> JSONstringify(actual) = JSONstringify(v)
         [] op = "notEquals" -> JSONstringify(actual) # JSONstringify(v)
         [] op = "contains" ->
               IF Tag(actual) = "str" THEN Includes(Val(actual), StringOf(v))
               ELSE IF Tag(actual) = "arr" THEN ArrayIncludes(Val(actual), v)
               ELSE FALSE
         [] op = "notContains" ->
               IF Tag(actual) = "str" THEN ~Includes(Val(actual), StringOf(v))
               ELSE IF Tag(actual) = "arr" THEN ~ArrayIncludes(Val(actual), v)
               ELSE TRUE
         [] op = "exists" -> Tag(actual) \notin {"undefined", "null"}
         [] op = "notExists" -> Tag(actual) \in {"undefined", "null"}
         [] op = "greaterThan" ->
               Tag(actual) = "num" /\ ToNumber(v) >= 0 /\ Val(actual) > ToNumber(v)
         [] op = "lessThan" ->
               Tag(actual) = "num" /\ ToNumber(v) >= 0 /\ Val(actual) < ToNumber(v)
         [] op = "matches" ->
               Tag(actual) = "str" /\ Tag(v) = "str" /\ RegExpTest(Val(v), Val(actual))
         [] OTHER -> FALSE

\* the default message of each branch: literal template text is kept in one
\* piece, interpolated parts are spelled in characters
OperatorMessage(assertion, actual, success) ==
    LET v == assertion.value
        op == assertion.operator
        path == assertion.path
    IN CASE op = "equals" ->
               IF success THEN path \o <<" equals ">> \o JsonShown(v)
               ELSE <<"Expected ">> \o path \o <<" to equal ">> \o JsonShown(v)
                    \o <<", got ">> \o JsonShown(actual)
         [] op = "notEquals" ->
               IF success THEN path \o <<" does not equal ">> \o JsonShown(v)
               ELSE <<"Expected ">> \o path \o <<" to not equal ">> \o JsonShown(v)
         [] op = "contains" ->
               IF success THEN path \o <<" contains ">> \o JsonShown(v)
               ELSE <<"Expected ">> \o path \o <<" to contain ">> \o JsonShown(v)
         [] op = "notContains" ->
               IF success THEN path \o <<" does not contain ">> \o JsonShown(v)
               ELSE <<"Expected ">> \o path \o <<" to not contain ">> \o JsonShown(v)
         [] op = "exists" ->
               IF success THEN path \o <<" exists">>
               ELSE <<"Expected ">> \o path \o <<" to exist">>
         [] op = "notExists" ->
               IF success THEN path \o <<" does not exist">>
               ELSE <<"Expected ">> \o path \o <<" to not exist">>
         [] op = "greaterThan" ->
               IF success
               THEN path \o <<" (">> \o StringOf(actual) \o <<") > ">> \o StringOf(v)
               ELSE <<"Expected ">> \o path \o <<" to be > ">> \o StringOf(v)
                    \o <<", got ">> \o StringOf(actual)
         [] op = "lessThan" ->
               IF success
               THEN path \o <<" (">> \o StringOf(actual) \o <<") < ">> \o StringOf(v)
               ELSE <<"Expected ">> \o path \o <<" to be < ">> \o StringOf(v)
                    \o <<", got ">> \o StringOf(actual)
         [] op = "matches" ->
               IF success THEN path \o <<" matches ">> \o StringOf(v)
               ELSE <<"Expected ">> \o path \o <<" to match ">> \o StringOf(v)
         [] op = "ai-evaluate" -> <<"AI evaluation requires async execution">>
         [] OTHER -> <<>>

AssertionResult(assertion, success, actual, message) ==
    [assertion |-> assertion, success |-> success, actual |-> actual,
     message |-> IF assertion.message # <<>> THEN assertion.message ELSE message]

\* the result an operator's branch returns, success being its flag
Evaluated(assertion, actual, success) ==
    AssertionResult(assertion, success, actual,
                    OperatorMessage(assertion, actual, success))

\* evaluateAssertion(assertion, actual): Ok(AssertionResult), or the SyntaxError
\* of new RegExp
evaluateAssertion(assertion, actual) ==
    IF /\ assertion.operator = "matches"
       /\ Tag(actual) = "str" /\ Tag(assertion.value) = "str"
       /\ RegExpInvalid(Val(assertion.value))
    THEN Throw("Invalid regular expression")
    ELSE Ok(Evaluated(assertion, actual, OperatorSuccess(assertion, actual)))

(***************************************************************************)
(* Flows, steps and transport responses the executor is run on             *)
(***************************************************************************)
KeyMethod == <<"m", "e", "t", "h", "o", "d">>
KeyUrl == <<"u", "r", "l">>
KeyHeaders == <<"h", "e", "a", "d", "e", "r", "s">>
KeyBody == <<"b", "o", "d", "y">>
KeyGraphql == <<"g", "r", "a", "p", "h", "q", "l">>
KeyQuery == <<"q", "u", "e", "r", "y">>
KeyVariables == <<"v", "a", "r", "i", "a", "b", "l", "e", "s">>
KeyOperationName ==
    <<"o", "p", "e", "r", "a", "t", "i", "o", "n", "N", "a", "m", "e">>

\* RequestDefinition as normalizeStep builds it: all five keys, in this order
Request(method, url, headers, body, graphql) ==
    Obj(<< <<KeyMethod, Str(method)>>, <<KeyUrl, url>>, <<KeyHeaders, headers>>,
           <<KeyBody, body>>, <<KeyGraphql, graphql>> >>)

Assertion(path, operator, value) ==
    [path |-> path, operator |-> operator, value |-> value, message |-> <<>>]
Capture(name, path) == [name |-> name, path |-> path]

\* waitUntil: timeout and interval 0 stand for an absent value
WaitUntil(path, operator, value, timeout, interval) ==
    [present |-> TRUE, path |-> path, operator |-> operator, value |-> value,
     timeout |-> timeout, interval |-> interval]
NoWaitUntil ==
    [present |-> FALSE, path |-> <<>>, operator |-> "exists", value |-> Undefined,
     timeout |-> 0, interval |-> 0]

Step(name, request, capture, assertions, waitUntil) ==
    [name |-> name, request |-> request, capture |-> capture,
     assertions |-> assertions, waitUntil |-> waitUntil]

Response(status, data) == [status |-> status, data |-> data]

GET == <<"G", "E", "T">>
POST == <<"P", "O", "S", "T">>
PathId == <<"i", "d">>
PathS == <<"s">>
PathStatus == <<"s", "t", "a", "t", "u", "s">>
PathHttpStatus == <<"h", "t", "t", "p", "S", "t", "a", "t", "u", "s">>
NameX == <<"x">>
TokenX == <<"$", "{", "x", "}">>
BaseA == Http \o <<"h">>
TheContext == Context(<< <<<<"a">>, Str(BaseA)>> >>)
\* a context whose base URLs have no key a
OtherContext == Context(<< <<<<"b">>, Str(Https \o <<"k">>)>> >>)
UrlTodos == <<"{", "a", "}", "/", "t">>
UrlTodo == <<"{", "a", "}", "/", "t", "/">> \o TokenX
Done == Str(<<"D">>)
\* the waitUntil timing of the polled step, in clock ticks
PollTimeout == 3
PollInterval == 2

\* POST {a}/t, capture x = id, assert status equals 201
StepCreate ==
    Step("create",
         Request(POST, Str(UrlTodos), Undefined,
                 Obj(<< <<<<"t">>, Str(<<"b">>)>> >>), Undefined),
         <<Capture(NameX, PathId)>>,
         <<Assertion(PathStatus, "equals", Num(201))>>,
         NoWaitUntil)
\* GET {a}/t/${x}, assert id equals "${x}"
StepGet ==
    Step("get",
         Request(GET, Str(UrlTodo), Undefined, Undefined, Undefined),
         <<>>,
         <<Assertion(PathId, "equals", Str(TokenX))>>,
         NoWaitUntil)

\* GET {a}/s, polled until s equals "D"; capture x = id, assert s equals "D"
StepPoll ==
    Step("poll",
         Request(GET, Str(<<"{", "a", "}", "/", "s">>), Undefined, Undefined, Undefined),
         <<Capture(NameX, PathId)>>,
         <<Assertion(PathS, "equals", Done)>>,
         WaitUntil(PathS, "equals", Done, PollTimeout, PollInterval))
\* a GraphQL request with variables {id: "${x}"}; an ai-evaluate assertion
\* followed by an exists assertion
StepAi ==
    Step("ai",
         Request(POST, Str(<<"/", "g">>), Undefined, Undefined,
                 Obj(<< <<KeyQuery, Str(<<"q", " ", "{", "i", "d", "}">>)>>,
                        <<KeyVariables, Obj(<< <<PathId, Str(TokenX)>> >>)>>,
                        <<KeyOperationName, Undefined>> >>)),
         <<>>,
         <<Assertion(PathId, "ai-evaluate", Str(<<"o", "k", "?">>)),
           Assertion(PathId, "exists", Undefined)>>,
         NoWaitUntil)
\* capture x = n (a path no response has), then a matches assertion whose
\* pattern is no regular expression
StepMatch ==
    Step("match",
         Request(GET, Str(Http \o <<"h", "/", "m">>), Undefined, Undefined, Undefined),
         <<Capture(NameX, <<"n">>)>>,
         <<Assertion(PathS, "exists", Undefined),
           Assertion(PathId, "matches", Str(<<"[">>))>>,
         NoWaitUntil)
\* POST with the body "${x}" and the header h: "v${x}"
StepBody ==
    Step("body",
         Request(POST, Str(UrlTodos),
                 Obj(<< <<<<"h">>, Str(<<"v">> \o TokenX)>> >>),
                 Str(TokenX), Undefined),
         <<>>,
         <<>>,
         NoWaitUntil)

StepCatalog == {StepCreate, StepGet, StepPoll, StepAi, StepMatch, StepBody}

Responses ==
    { Response(201, Obj(<< <<PathId, Str(<<"t", "1">>)>>, <<PathS, Done>> >>)),
      Response(500, Obj(<< <<PathId, Obj(<< <<<<"k">>, Num(1)>> >>)>>,
                           <<PathS, Str(<<"W">>)>> >>)) }
\* the messages of the errors the transport rejects with
TransportErrors == {"connect ECONNREFUSED"}

MaxSteps == 2
RECURSIVE SeqsUpTo(_, _)
SeqsUpTo(S, n) ==
    IF n = 0 THEN {<<>>}
    ELSE LET shorter == SeqsUpTo(S, n - 1)
         IN shorter \cup {Append(q, e) : q \in {r \in shorter : Len(r) = n - 1}, e \in S}
Flows == SeqsUpTo(StepCatalog, MaxSteps)

(***************************************************************************)
(* State                                                                   *)
(***************************************************************************)
VARIABLES
    context,    \* FlowExecutor.context
    aiConfig,   \* FlowExecutor.aiConfig is set
    variables,  \* FlowExecutor.variables, the entries of the variable bag
    frame,      \* per caller: its executeFlow invocation and the step it is in
    call        \* a function called on its own: its arguments and what it gave

vars == <<context, aiConfig, variables, frame, call>>

\* no exported function was called yet
NoCall == [fn |-> "none", args |-> <<>>, done |-> TRUE, out |-> <<>>]

\* the callers that may have an executeFlow invocation on the executor
MaxCallers == 2
Callers == 1..MaxCallers
\* TestRunner.run: one loop that awaits each executeFlow before the next
Runner == 1

DefaultTimeout == 30000
DefaultInterval == 2000
\* bound on the clock: how long after the interval the response of a retry
\* arrives (the lateness of the timer plus the latency of the request)
MaxLatency == 1

NoRequest == [method |-> Undefined, url |-> Undefined, headers |-> Undefined,
              data |-> Undefined]

IdleFrame ==
    [pc |-> "idle", flow |-> <<>>, i |-> 0, stepResults |-> <<>>, success |-> TRUE,
     req |-> NoRequest, response |-> <<>>, captures |-> <<>>, assertions |-> <<>>,
     k |-> 0, elapsed |-> 0, result |-> <<>>, ret |-> <<>>,
     \* history the properties read: the steps begun, the requests this step
     \* issued, whether the last response met the waitUntil condition, whether
     \* the bag held entries when the flow started, the steps whose transport
     \* call was rejected
     started |-> <<>>, sent |-> 0, metSeen |-> FALSE, dirtyStart |-> FALSE,
     transportFailed |-> {},
     \* how long the last request of the poll took
     latency |-> 0,
     \* what the AI evaluator returned to this step, if it was called
     aiSeen |-> <<>>]

StepOf(f) == f.flow[f.i]
Timeout(config) == IF config.timeout # 0 THEN config.timeout ELSE DefaultTimeout
Interval(config) == IF config.interval # 0 THEN config.interval ELSE DefaultInterval

\* the result of a synchronous stretch of code: the frame and the bag after it
Out(f, bag) == [f |-> f, bag |-> bag]

(***************************************************************************)
(* FlowExecutor.executeStep, between its awaits                            *)
(***************************************************************************)
\* a mutation of StepFailed: the error leaves executeStep, executeFlow rejects
StepRethrown(f, msg) == [f EXCEPT !.pc = "rejected"]

\* a mutation of StepFailed: the last response is reported with the error
StepFailedWithResponse(f, msg) ==
    [f EXCEPT !.pc = "stepReturned",
              !.result = <<[step |-> StepOf(f), success |-> FALSE,
                            request |-> [method |-> GetProp(StepOf(f).request, KeyMethod),
                                         url |-> GetProp(StepOf(f).request, KeyUrl),
                                         body |-> Undefined],
                            response |-> f.response, captures |-> f.captures,
                            assertions |-> f.assertions,
                            error |-> <<ErrorString(msg)>>]>>]

\* the catch block
StepFailed(f, msg) ==
    [f EXCEPT !.pc = "stepReturned",
              !.result = <<[step |-> StepOf(f), success |-> FALSE,
                            request |-> [method |-> GetProp(StepOf(f).request, KeyMethod),
                                         url |-> GetProp(StepOf(f).request, KeyUrl),
                                         body |-> Undefined],
                            response |-> <<>>, captures |-> f.captures,
                            assertions |-> f.assertions,
                            error |-> <<ErrorString(msg)>>]>>]

\* a mutation of StepSucceeded: a status outside 2xx fails the step
StepSucceededOn2xx(f) ==
    [f EXCEPT !.pc = "stepReturned",
              !.result = <<[step |-> StepOf(f),
                            success |-> /\ f.response[1].status >= 200
                                        /\ f.response[1].status < 300
                                        /\ \A n \in 1..Len(f.assertions) :
                                               f.assertions[n].success,
                            request |-> [method |-> f.req.method, url |-> f.req.url,
                                         body |-> f.req.data],
                            response |-> f.response, captures |-> f.captures,
                            assertions |-> f.assertions, error |-> <<>>]>>]

\* the return at the end of the try block
StepSucceeded(f) ==
    [f EXCEPT !.pc = "stepReturned",
              !.result = <<[step |-> StepOf(f),
                            success |-> \A n \in 1..Len(f.assertions) :
                                            f.assertions[n].success,
                            request |-> [method |-> f.req.method, url |-> f.req.url,
                                         body |-> f.req.data],
                            response |-> f.response, captures |-> f.captures,
                            assertions |-> f.assertions, error |-> <<>>]>>]

\* resolved.graphql.query ? this.interpolateStr(resolved.graphql.query) : undefined
GraphqlQuery(q, bag) == IF Truthy(q) THEN interpolate(q, Obj(bag)) ELSE Undefined
\* resolved.graphql.variables ? this.resolveVariables(...) : undefined
GraphqlResolved(v, bag) ==
    IF Truthy(v) THEN resolveVariables(v, Obj(bag)) ELSE Undefined
\* if (variables && typeof variables === 'object') variables = parseJsonStrings(variables)
GraphqlVariables(v) ==
    IF Truthy(v) /\ IsObject(v) THEN parseJsonStrings(v) ELSE v
\* the body the GraphQL branch builds
GraphqlBody(g, bag) ==
    Obj(<< <<KeyQuery, GraphqlQuery(GetProp(g, KeyQuery), bag)>>,
           <<KeyVariables,
             GraphqlVariables(GraphqlResolved(GetProp(g, KeyVariables), bag))>>,
           <<KeyOperationName, GetProp(g, KeyOperationName)>> >>)
\* let body = resolved.body; if (resolved.graphql) body = {...}
RequestBody(resolved, g, bag) ==
    IF Truthy(g) THEN GraphqlBody(g, bag) ELSE GetProp(resolved, KeyBody)

\* await axios({method, url, headers, data}), or the catch block when
\* resolveUrl threw
SendRequest(f, method, url, headers, body, bag) ==
    IF IsThrow(url) THEN Out(StepFailed(f, url[2]), bag)
    ELSE Out([f EXCEPT !.pc = "http", !.sent = 1,
                       !.req = [method |-> method, url |-> url[2],
                                headers |-> headers, data |-> body]],
             bag)

\* the try block from resolved on, up to the first await
PrepareRequest(f, resolved, bag) ==
    SendRequest(f, GetProp(resolved, KeyMethod),
                resolveUrl(GetProp(resolved, KeyUrl), context),
                GetProp(resolved, KeyHeaders),
                RequestBody(resolved, GetProp(resolved, KeyGraphql), bag),
                bag)

\* from the start of executeStep to the first await axios(...)
BeginStep(f0, bag) ==
    PrepareRequest([f0 EXCEPT !.req = NoRequest, !.response = <<>>,
                              !.captures = <<>>, !.assertions = <<>>, !.k = 0,
                              !.elapsed = 0, !.latency = 0, !.aiSeen = <<>>,
                              !.result = <<>>,
                              !.sent = 0,
                              !.metSeen = FALSE, !.started = Append(@, f0.i)],
                   resolveVariables(StepOf(f0).request, Obj(bag)),
                   bag)

\* a mutation of CaptureFrom: the value reaches StepResult.captures only
RECURSIVE CaptureLocalOnly(_, _, _, _, _)
CaptureLocalOnly(caps, k, data, captures, bag) ==
    IF k > Len(caps) THEN <<captures, bag>>
    ELSE CaptureLocalOnly(caps, k + 1, data,
                          SetKey(captures, caps[k].name,
                                 extractValue(data, caps[k].path)),
                          bag)

\* a mutation of CaptureFrom: a name captured once is not written again
RECURSIVE CaptureKeepFirst(_, _, _, _, _)
CaptureKeepFirst(caps, k, data, captures, bag) ==
    IF k > Len(caps) THEN <<captures, bag>>
    ELSE IF HasKey(captures, caps[k].name)
    THEN CaptureKeepFirst(caps, k + 1, data, captures, bag)
    ELSE CaptureKeepFirst(caps, k + 1, data,
                          SetKey(captures, caps[k].name,
                                 extractValue(data, caps[k].path)),
                          SetKey(bag, caps[k].name,
                                 extractValue(data, caps[k].path)))

\* the capture loop: <<captures, bag>> after the entries from k on
RECURSIVE CaptureFrom(_, _, _, _, _)
RECURSIVE CaptureValue(_, _, _, _, _, _)
CaptureFrom(caps, k, data, captures, bag) ==
    IF k > Len(caps) THEN <<captures, bag>>
    ELSE CaptureValue(caps, k, data, captures, bag,
                      extractValue(data, caps[k].path))
\* captures[cap.name] = val; this.variables[cap.name] = val
CaptureValue(caps, k, data, captures, bag, val) ==
    CaptureFrom(caps, k + 1, data,
                SetKey(captures, caps[k].name, val),
                SetKey(bag, caps[k].name, val))

\* the path status read as the status code whatever the expected value is
ActualOfStatusAlways(a, response) ==
    IF a.path \in {PathHttpStatus, PathStatus}
    THEN Num(response.status)
    ELSE extractValue(response.data, a.path)

\* the actual value an assertion is evaluated on
ActualOf(a, response) ==
    IF a.path = PathHttpStatus
       \/ (a.path = PathStatus /\ Tag(a.value) = "num")
    THEN Num(response.status)
    ELSE extractValue(response.data, a.path)

\* the assertion loop from assertion k on, up to the next await or the return
RECURSIVE AssertFrom(_, _)
RECURSIVE Asserted(_, _, _)
AssertFrom(f, k) ==
    IF k > Len(StepOf(f).assertions) THEN StepSucceeded(f)
    ELSE IF StepOf(f).assertions[k].operator = "ai-evaluate"
    THEN [f EXCEPT !.pc = "ai", !.k = k]
    ELSE Asserted(f, k, evaluateAssertion(StepOf(f).assertions[k],
                                          ActualOf(StepOf(f).assertions[k],
                                                   f.response[1])))
\* assertions.push(evaluateAssertion(a, actual)), r being what the call gave
Asserted(f, k, r) ==
    IF IsThrow(r) THEN StepFailed(f, r[2])
    ELSE AssertFrom([f EXCEPT !.assertions = Append(@, r[2])], k + 1)

\* the assertions on a response whose captures are c = <<captures, bag>>
AssertCaptured(f, c) == Out(AssertFrom([f EXCEPT !.captures = c[1]], 1), c[2])
\* the bag is put back when the step ended with an error
UndoOnError(o, bag) ==
    IF o.f.pc = "stepReturned" /\ o.f.result[1].error # <<>>
    THEN Out(o.f, bag) ELSE o
\* a mutation of CaptureAndAssert: an error at the assertions takes the
\* captures of the step out of the bag again
CaptureUndoneOnError(f, bag) ==
    UndoOnError(AssertCaptured(f, CaptureFrom(StepOf(f).capture, 1,
                                              f.response[1].data, <<>>, bag)),
                bag)
\* a mutation of CaptureAndAssert: the captures of a step whose assertions
\* failed are taken back
CaptureWhenPassed(f, bag) ==
    IF \A n \in 1..Len(StepOf(f).assertions) :
           StepOf(f).assertions[n].operator # "ai-evaluate"
           /\ ~IsThrow(evaluateAssertion(StepOf(f).assertions[n],
                                        ActualOf(StepOf(f).assertions[n], f.response[1])))
           /\ evaluateAssertion(StepOf(f).assertions[n],
                                ActualOf(StepOf(f).assertions[n], f.response[1]))[2].success
    THEN AssertCaptured(f, CaptureFrom(StepOf(f).capture, 1, f.response[1].data,
                                       <<>>, bag))
    ELSE Out(AssertFrom(f, 1), bag)
\* capture, then assertions, on the response the step ends with
CaptureAndAssert(f, bag) ==
    AssertCaptured(f, CaptureFrom(StepOf(f).capture, 1, f.response[1].data,
                                  <<>>, bag))

(***************************************************************************)
(* FlowExecutor.poll                                                       *)
(***************************************************************************)
\* the switch on config.operator
ConditionMet(config, actual) ==
    CASE config.operator = "equals" ->
            JSONstringify(actual) = JSONstringify(config.value)
      [] config.operator = "notEquals" ->
            JSONstringify(actual) # JSONstringify(config.value)
      [] config.operator = "exists" -> Tag(actual) \notin {"undefined", "null"}
      [] config.operator = "notExists" -> Tag(actual) \in {"undefined", "null"}
      [] OTHER -> FALSE
\* const actual = extractValue(response.data, config.path); met = ...
PollMet(config, response) ==
    ConditionMet(config, extractValue(response.data, config.path))

\* a mutation of PollLoop: the loop goes on to the timeout whatever it received
PollLoopToTimeout(f, bag) ==
    IF f.elapsed < Timeout(StepOf(f).waitUntil)
    THEN Out([f EXCEPT !.pc = "sleep"], bag)
    ELSE CaptureAndAssert(f, bag)

\* a mutation of PollLoop: the timeout is an error of the step
PollLoopTimeoutThrows(f, bag) ==
    IF f.elapsed >= Timeout(StepOf(f).waitUntil)
    THEN Out(StepFailed(f, "Polling timed out"), bag)
    ELSE IF ~PollMet(StepOf(f).waitUntil, f.response[1])
    THEN Out([f EXCEPT !.pc = "sleep"], bag)
    ELSE CaptureAndAssert(f, bag)

\* a mutation of PollLoop: the loop is entered once more at the deadline
PollLoopInclusive(f, bag) ==
    IF /\ f.elapsed <= Timeout(StepOf(f).waitUntil)
       /\ ~PollMet(StepOf(f).waitUntil, f.response[1])
    THEN Out([f EXCEPT !.pc = "sleep"], bag)
    ELSE CaptureAndAssert(f, bag)

\* a mutation of PollLoop: the poll gives up after its first retry
PollLoopGivesUp(f, bag) ==
    IF /\ f.elapsed < Timeout(StepOf(f).waitUntil)
       /\ f.sent < 2
       /\ ~PollMet(StepOf(f).waitUntil, f.response[1])
    THEN Out([f EXCEPT !.pc = "sleep"], bag)
    ELSE CaptureAndAssert(f, bag)

\* a mutation of PollLoop: the loop has no deadline, while (true)
PollLoopNoDeadline(f, bag) ==
    IF ~PollMet(StepOf(f).waitUntil, f.response[1])
    THEN Out([f EXCEPT !.pc = "sleep"], bag)
    ELSE CaptureAndAssert(f, bag)

\* a mutation of PollLoop: every response of the poll is captured from, also
\* one that does not meet the condition
PollLoopCapturing(f, bag) ==
    IF /\ f.elapsed < Timeout(StepOf(f).waitUntil)
       /\ ~PollMet(StepOf(f).waitUntil, f.response[1])
    THEN Out([f EXCEPT !.pc = "sleep"],
             CaptureFrom(StepOf(f).capture, 1, f.response[1].data, <<>>, bag)[2])
    ELSE CaptureAndAssert(f, bag)

\* one evaluation of the while condition and of the loop body up to the sleep
PollLoop(f, bag) ==
    IF /\ f.elapsed < Timeout(StepOf(f).waitUntil)
       /\ ~PollMet(StepOf(f).waitUntil, f.response[1])
    THEN Out([f EXCEPT !.pc = "sleep"], bag)
    ELSE CaptureAndAssert(f, bag)

\* executeStep after the first response arrived
OnResponse(f0, response, bag) ==
    IF StepOf(f0).waitUntil.present
    THEN PollLoop([f0 EXCEPT !.response = <<response>>,
                             !.metSeen = PollMet(StepOf(f0).waitUntil, response)],
                  bag)
    ELSE CaptureAndAssert([f0 EXCEPT !.response = <<response>>], bag)

(***************************************************************************)
(* FlowExecutor.runAiAssertion                                             *)
(***************************************************************************)
\* what evaluateWithAi may answer: it catches every error of the provider
\* call; confidence is in hundredths
AiEvaluations ==
    { [pass |-> TRUE, confidence |-> 95, reason |-> <<"looks valid">>],
      [pass |-> FALSE, confidence |-> 0,
       reason |-> <<"Ollama evaluation failed: timeout">>] }

runAiAssertion(assertion, actual, evaluation) ==
    IF ~aiConfig
    THEN AssertionResult(assertion, FALSE, actual,
            <<"AI evaluation requires Ollama configuration. See docs for setup.">>)
    ELSE AssertionResult(assertion, evaluation.pass, actual,
            IF evaluation.pass
            THEN <<"AI passed (">> \o NumToStr(evaluation.confidence)
                 \o <<"%): ">> \o evaluation.reason
            ELSE <<"AI failed: ">> \o evaluation.reason)

(***************************************************************************)
(* FlowExecutor.executeFlow, between its awaits                            *)
(***************************************************************************)
FlowReturned(f, bag) ==
    [f EXCEPT !.pc = "returned",
              !.ret = <<[flow |-> f.flow, success |-> f.success,
                         steps |-> f.stepResults, variables |-> bag]>>]

\* a mutation of RunFrom: the loop stops at the first failed step
RunFromUntilFailure(f, i, bag) ==
    IF i > Len(f.flow) \/ ~f.success THEN Out(FlowReturned(f, bag), bag)
    ELSE BeginStep([f EXCEPT !.i = i], bag)

\* the for loop from step i on: the next step starts, or the flow returns
RunFrom(f, i, bag) ==
    IF i > Len(f.flow) THEN Out(FlowReturned(f, bag), bag)
    ELSE BeginStep([f EXCEPT !.i = i], bag)

\* a mutation of ResetVariables: the bag of the previous flow is kept
KeepVariables(bag) == bag

\* this.variables = {}
ResetVariables(bag) == <<>>

\* caller c goes on to the frame, and the executor to the bag, that a
\* synchronous stretch of code ended with
Continue(c, out) ==
    /\ frame' = [frame EXCEPT ![c] = out.f]
    /\ variables' = out.bag
    /\ UNCHANGED <<context, aiConfig, call>>

\* executeFlow(flow) up to its first await
StartFlow(c, flow) ==
    /\ frame[c].pc = "idle"
    /\ Continue(c, RunFrom([IdleFrame EXCEPT !.flow = flow,
                                             !.dirtyStart = variables # <<>>],
                           1, ResetVariables(variables)))

\* the first axios call of a step resolves
HttpReturn(c, response) ==
    /\ frame[c].pc = "http"
    /\ Continue(c, OnResponse(frame[c], response, variables))

\* an axios call of a step (the first or a poll's) rejects
HttpThrow(c, msg) ==
    /\ frame[c].pc \in {"http", "pollHttp"}
    /\ frame' = [frame EXCEPT
                    ![c] = StepFailed([frame[c] EXCEPT
                                          !.transportFailed = @ \cup {frame[c].i}],
                                      msg)]
    /\ UNCHANGED <<context, aiConfig, variables, call>>

\* the timer of poll fires and the request is issued again
SleepDone(c) ==
    /\ frame[c].pc = "sleep"
    /\ frame' = [frame EXCEPT ![c].pc = "pollHttp",
                              ![c].sent = @ + 1,
                              ![c].elapsed = @ + Interval(StepOf(frame[c]).waitUntil)]
    /\ UNCHANGED <<context, aiConfig, variables, call>>

\* a poll's axios call resolves after latency
PollHttpReturn(c, response, latency) ==
    /\ frame[c].pc = "pollHttp"
    /\ Continue(c, PollLoop([frame[c] EXCEPT
                                !.response = <<response>>,
                                !.elapsed = @ + latency,
                                !.latency = latency,
                                !.metSeen = PollMet(StepOf(frame[c]).waitUntil,
                                                    response)],
                            variables))

\* a mutation of AiAsserted: a failed evaluation or a missing configuration
\* is thrown
AiAssertedRaises(f, evaluation) ==
    IF ~aiConfig \/ ~evaluation.pass
    THEN StepFailed(f, "AI evaluation failed")
    ELSE AssertFrom([f EXCEPT !.aiSeen = <<evaluation>>,
                              !.assertions =
                                  Append(@, runAiAssertion(StepOf(f).assertions[f.k],
                                                           ActualOf(StepOf(f).assertions[f.k],
                                                                    f.response[1]),
                                                           evaluation))],
                    f.k + 1)

\* assertions.push(await this.runAiAssertion(a, actual)), then the loop goes on
AiAsserted(f, evaluation) ==
    AssertFrom([f EXCEPT !.aiSeen = IF aiConfig THEN <<evaluation>> ELSE <<>>,
                         !.assertions =
                    Append(@, runAiAssertion(StepOf(f).assertions[f.k],
                                             ActualOf(StepOf(f).assertions[f.k],
                                                      f.response[1]),
                                             evaluation))],
               f.k + 1)

\* await this.runAiAssertion(a, actual) resumes
AiReturn(c, evaluation) ==
    /\ frame[c].pc = "ai"
    /\ frame' = [frame EXCEPT ![c] = AiAsserted(frame[c], evaluation)]
    /\ UNCHANGED <<context, aiConfig, variables, call>>

\* a mutation of FlowSuccess: the last step alone decides
FlowSuccessLastStep(success, result) == result.success

\* if (!result.success) success = false
FlowSuccess(success, result) == success /\ result.success

\* await this.executeStep(...) resumes: the result is pushed and the loop goes on
ResumeFlow(c) ==
    /\ frame[c].pc = "stepReturned"
    /\ Continue(c, RunFrom([frame[c] EXCEPT
                               !.stepResults = Append(@, frame[c].result[1]),
                               !.success = FlowSuccess(@, frame[c].result[1])],
                           frame[c].i + 1, variables))

\* the caller takes the FlowResult its await gave it (results.push(result))
TakeResult(c) ==
    /\ frame[c].pc = "returned"
    /\ frame' = [frame EXCEPT ![c] = IdleFrame]
    /\ UNCHANGED <<context, aiConfig, variables, call>>

Init ==
    /\ context \in {NoContext, TheContext, OtherContext}
    /\ aiConfig \in BOOLEAN
    /\ variables = <<>>
    /\ frame = [c \in Callers |-> IdleFrame]
    /\ call = NoCall

Step1(c) ==
    \/ \E response \in Responses : HttpReturn(c, response)
    \/ \E msg \in TransportErrors : HttpThrow(c, msg)
    \/ SleepDone(c)
    \/ \E response \in Responses, latency \in 0..MaxLatency :
          PollHttpReturn(c, response, latency)
    \/ \E evaluation \in AiEvaluations : AiReturn(c, evaluation)
    \/ ResumeFlow(c)
    \/ TakeResult(c)

\* the executor as TestRunner.run drives it: one flow after the other
Next ==
    \/ \E flow \in Flows : StartFlow(Runner, flow)
    \/ Step1(Runner)

Spec == Init /\ [][Next]_vars

\* the flows of the callers that share the executor
ConcFlows == {<<StepCreate, StepGet>>, <<StepPoll>>, <<StepAi>>}

InitConc ==
    /\ context = TheContext
    /\ aiConfig = TRUE
    /\ variables = <<>>
    /\ frame = [c \in Callers |-> IdleFrame]
    /\ call = NoCall

\* the executor as a library: a caller need not await a flow before the next
\* executeFlow call, so invocations overlap at their awaits
NextConc ==
    \E c \in Callers :
        \/ \E flow \in ConcFlows : StartFlow(c, flow)
        \/ Step1(c)

SpecConc == InitConc /\ [][NextConc]_vars

(***************************************************************************)
(* evaluateAssertion and the selection of the actual value, on their own   *)
(***************************************************************************)
ObjK == Obj(<< <<<<"k">>, Num(1)>> >>)
ObjAB == Obj(<< <<<<"a">>, Num(1)>>, <<<<"b">>, Num(2)>> >>)
ObjBA == Obj(<< <<<<"b">>, Num(2)>>, <<<<"a">>, Num(1)>> >>)
\* actual and expected values: scalars, strings (one of them no regular
\* expression), arrays with scalar and structured elements, objects
AssertValues ==
    { Undefined, Null, Num(200), Num(7), Str(<<"2", "0", "0">>), Str(<<"a", "b">>),
      Str(<<"b">>), Str(<<"[">>), Arr(<<Str(<<"b">>), ObjK>>), Arr(<<Num(200)>>),
      ObjK, ObjAB, ObjBA }
AssertOperators ==
    { "equals", "notEquals", "contains", "notContains", "exists", "notExists",
      "greaterThan", "lessThan", "matches", "ai-evaluate" }
\* assertions on the paths the executor treats specially and on a body path
ActualAssertions ==
    { Assertion(path, "equals", value) :
        path \in {PathHttpStatus, PathStatus, PathId},
        value \in {Num(200), Str(<<"2", "0", "0">>), Undefined} }
\* responses whose body has a status member, an httpStatus member, neither
ActualResponses ==
    { Response(200, Obj(<< <<PathStatus, Str(<<"o", "k">>)>>, <<PathId, Num(7)>> >>)),
      Response(404, Obj(<< <<PathStatus, Num(200)>>, <<PathHttpStatus, Num(7)>> >>)),
      Response(200, Obj(<< <<PathId, Str(<<"t", "1">>)>> >>)),
      Response(204, Undefined) }

\* capture lists with names that differ and names that repeat, with paths
\* that find a value and a path that finds none
MaxCaptures == 2
NameY == <<"y">>
CaptureEntries ==
    { Capture(NameX, PathId), Capture(NameX, PathS), Capture(NameY, PathS),
      Capture(NameY, <<"n">>) }
CaptureLists == SeqsUpTo(CaptureEntries, MaxCaptures)
\* the bag a step starts with: empty, or holding y from an earlier step
CaptureBags == { <<>>, << <<NameY, Str(<<"o">>)>> >> }

\* values extractValue descends into: null and undefined roots, arrays under
\* a, a string and a null under a, arrays two levels down
ObjC == Obj(<< <<<<"c">>, Arr(<<Num(5), Num(6)>>)>> >>)
ExtractRoots ==
    { Undefined, Null, Obj(<<>>),
      Obj(<< <<<<"a">>, Arr(<<Num(1), Str(<<"z">>)>>)>> >>),
      Obj(<< <<<<"a">>, Str(<<"x", "y">>)>> >>),
      Obj(<< <<<<"a">>, Null>> >>),
      Obj(<< <<<<"a">>, Obj(<< <<<<"b">>, Arr(<<ObjC>>)>> >>)>> >>) }
\* a path as written, with its segments: the key and the index (-1 for none)
PathCase(path, segments) == [path |-> path, segments |-> segments]
ExtractPaths ==
    { PathCase(<<"a">>, << <<<<"a">>, -1>> >>),
      PathCase(<<"a", "[", "0", "]">>, << <<<<"a">>, 0>> >>),
      PathCase(<<"a", "[", "1", "]">>, << <<<<"a">>, 1>> >>),
      PathCase(<<"a", "[", "2", "]">>, << <<<<"a">>, 2>> >>),
      PathCase(<<"n">>, << <<<<"n">>, -1>> >>),
      PathCase(<<"a", ".", "b">>, << <<<<"a">>, -1>>, <<<<"b">>, -1>> >>),
      PathCase(<<"a", ".", "b", "[", "0", "]", ".", "c", "[", "1", "]">>,
               << <<<<"a">>, -1>>, <<<<"b">>, 0>>, <<<<"c">>, 1>> >>),
      PathCase(<<"a", ".", "b", "[", "0", "]", ".", "c", "[", "2", "]">>,
               << <<<<"a">>, -1>>, <<<<"b">>, 0>>, <<<<"c">>, 2>> >>),
      PathCase(<<"a", ".", "b", "[", "1", "]", ".", "c", "[", "0", "]">>,
               << <<<<"a">>, -1>>, <<<<"b">>, 1>>, <<<<"c">>, 0>> >>),
      PathCase(<<"t", "o", "S", "t", "r", "i", "n", "g">>,
               << <<<<"t", "o", "S", "t", "r", "i", "n", "g">>, -1>> >>),
      PathCase(<<"a", ".", "v", "a", "l", "u", "e", "O", "f">>,
               << <<<<"a">>, -1>>, <<<<"v", "a", "l", "u", "e", "O", "f">>, -1>> >>) }

\* strings interpolate is called on, in pieces: literal text and ${name} tokens
Lit(text) == <<"lit", text>>
Tok(name) == <<"tok", name>>
NameA == <<"a">>
NameN == <<"n">>
NameO == <<"o">>
InterpolatePieces ==
    { <<Lit(<<"p">>)>>,
      <<Tok(NameX)>>,
      <<Tok(NameN)>>,
      <<Tok(NameO)>>,
      <<Tok(NameX), Tok(NameX)>>,
      <<Tok(NameN), Tok(NameX)>>,
      <<Lit(<<"a">>), Tok(NameX), Lit(<<"b">>), Tok(NameN)>>,
      <<Lit(<<"/">>), Tok(NameA), Lit(<<"/">>), Tok(NameX)>>,
      <<Lit(<<"$", "{">>), Tok(NameA), Lit(<<"}">>)>>,
      <<Tok(NameA), Lit(<<"{", "x", "}">>)>>,
      <<Lit(<<"$", "{", "x">>), Tok(NameX)>> }
\* bags: empty, scalar values, a null, an object, a value that is a name, a
\* value that is a dollar sign, a value that holds a token
InterpolateBags ==
    { <<>>,
      << <<NameX, Str(<<"t", "1">>)>> >>,
      << <<NameX, Num(0)>>, <<NameO, ObjK>> >>,
      << <<NameX, Null>>, <<NameA, Bool(FALSE)>> >>,
      << <<NameX, Str(<<"t", "1">>)>>, <<NameA, Str(<<"x">>)>> >>,
      << <<NameX, Str(<<"t", "1">>)>>, <<NameA, Str(<<"$">>)>> >>,
      << <<NameX, Str(TokenX)>>, <<NameA, Str(<<"$", "{", "n", "}">>)>> >> }
\* the string the pieces spell
RECURSIVE Spelled(_)
Spelled(pieces) ==
    IF pieces = <<>> THEN <<>>
    ELSE (IF pieces[1][1] = "tok" THEN <<"$", "{">> \o pieces[1][2] \o <<"}">>
          ELSE pieces[1][2])
         \o Spelled(Tail(pieces))

\* requests resolveVariables is called on, and bags: x bound to an object, to
\* a string that starts like JSON and is none, to a number, or to nothing
TokenO == <<"$", "{", "o", "}">>
ResolveUrls == { Str(<<"/", "u", "/">> \o TokenX), Str(TokenO) }
ResolveHeaders == { Undefined, Obj(<< <<<<"h">>, Str(TokenO)>> >>) }
ResolveBodies ==
    { Undefined,
      Str(TokenX),
      Str(<<"{", "k", "}">>),
      Obj(<< <<<<"f">>, Str(TokenX)>>, <<<<"n">>, Num(1)>>,
             <<<<"b">>, Bool(TRUE)>>, <<<<"z">>, Null>> >>),
      Arr(<< Str(TokenX), Arr(<<Str(TokenO)>>),
             Obj(<< <<<<"k">>, Str(<<"[">> \o TokenX \o <<"]">>)>> >>) >>),
      Obj(<< <<<<"f">>, Str(<<" ", "{", "}">>)>> >>),
      Obj(<< <<<<"t">>, Str(<<"[", "]">>)>>, <<<<"p">>, Str(<<"$", "{", "x">>)>>,
             <<<<"q">>, Str(<<"1">>)>>, <<<<"e">>, Str(<<>>)>> >>),
      Obj(<< <<<<"j">>, Str(<<"{", Quote, "k", Quote, ":">> \o TokenX \o <<"}">>)>> >>) }
ResolveRequests ==
    { Request(GET, url, headers, body, Undefined) :
          url \in ResolveUrls, headers \in ResolveHeaders, body \in ResolveBodies }
ResolveBags ==
    { <<>>,
      << <<NameX, ObjK>>, <<NameO, Arr(<<Num(1), Str(<<"t">>)>>)>> >>,
      << <<NameX, Str(<<"[", "1">>)>>, <<NameO, Str(<<"t", "1">>)>> >>,
      << <<NameX, Num(0)>>, <<NameO, Null>> >> }

(***************************************************************************)
(* executeStep after its response arrived, with the verbose flag. Spec and  *)
(* SpecConc run the executor the constructor builds by default, verbose =   *)
(* false; here the flag is an argument.                                     *)
(***************************************************************************)
KeyErrors == <<"e", "r", "r", "o", "r", "s">>
\* for (const err of response.data.errors) console.log(err.message || ...)
ErrorsLogged(errors) ==
    IF Tag(errors) = "str" THEN Ok(Undefined)
    ELSE IF Tag(errors) # "arr"
    THEN Throw("response.data.errors is not iterable")
    ELSE IF \E n \in 1..Len(Val(errors)) : Tag(Val(errors)[n]) = "null"
    THEN Throw("Cannot read properties of null (reading 'message')")
    ELSE Ok(Undefined)
\* if (resolved.graphql && response.data?.errors && this.verbose) ...
GraphqlErrorsLogged(graphql, data, verbose) ==
    IF /\ Truthy(graphql)
       /\ Tag(data) \notin {"null", "undefined"}
       /\ Truthy(GetProp(data, KeyErrors))
       /\ verbose
    THEN ErrorsLogged(GetProp(data, KeyErrors))
    ELSE Ok(Undefined)
\* the display of a captured value: JSON.stringify(val).substring(0, 40) for a
\* value that is no string, null or undefined
DisplayThrows(val) ==
    /\ Tag(val) \notin {"null", "undefined", "str"}
    /\ JSONstringify(val) = Undefined
\* the first capture entry whose value cannot be displayed, 0 when there is none
FirstUnshown(caps, data) ==
    IF \E k \in 1..Len(caps) : DisplayThrows(extractValue(data, caps[k].path))
    THEN CHOOSE k \in 1..Len(caps) :
             /\ DisplayThrows(extractValue(data, caps[k].path))
             /\ \A m \in 1..(k - 1) : ~DisplayThrows(extractValue(data, caps[m].path))
    ELSE 0
\* the catch block, reached from the capture loop with c = <<captures, bag>>
CaptureFailed(f, c, msg) == Out(StepFailed([f EXCEPT !.captures = c[1]], msg), c[2])
\* the capture loop with its log lines, then the assertions; shown is the
\* entry whose log line throws
CaptureLogged(f, bag, shown) ==
    IF shown > 0
    THEN CaptureFailed(f, CaptureFrom(SubSeq(StepOf(f).capture, 1, shown), 1,
                                      f.response[1].data, <<>>, bag),
                       "Cannot read properties of undefined (reading 'substring')")
    ELSE CaptureAndAssert(f, bag)
\* the GraphQL errors log, r being what it gave, then capture and assertions
ErrorsThenCapture(f, bag, verbose, r) ==
    IF IsThrow(r) THEN Out(StepFailed(f, r[2]), bag)
    ELSE CaptureLogged(f, bag,
                       IF verbose
                       THEN FirstUnshown(StepOf(f).capture, f.response[1].data)
                       ELSE 0)
\* executeStep from the response of a step without waitUntil to its return
AfterResponse(f, bag, verbose) ==
    ErrorsThenCapture(f, bag, verbose,
                      GraphqlErrorsLogged(GetProp(resolveVariables(StepOf(f).request,
                                                                   Obj(bag)),
                                                  KeyGraphql),
                                          f.response[1].data, verbose))
\* what a step gives: the StepResult and the bag after it
Outcome(o) ==
    [success |-> o.f.result[1].success, error |-> o.f.result[1].error,
     captures |-> o.f.result[1].captures,
     assertions |-> o.f.result[1].assertions, variables |-> o.bag]
\* the frame of a flow of one step whose request got this response
Responded(step, response) ==
    [IdleFrame EXCEPT !.pc = "http", !.flow = <<step>>, !.i = 1,
                      !.response = <<response>>]

\* a GraphQL step that asserts the response reports no errors, and a step that
\* captures under a path every value answers (an inherited method)
StepGql ==
    Step("gql",
         Request(POST, Str(<<"/", "g">>), Undefined, Undefined,
                 Obj(<< <<KeyQuery, Str(<<"q", " ", "{", "i", "d", "}">>)>>,
                        <<KeyVariables, Undefined>>,
                        <<KeyOperationName, Undefined>> >>)),
         <<Capture(NameX, PathId)>>,
         <<Assertion(KeyErrors, "notExists", Undefined)>>,
         NoWaitUntil)
StepShow ==
    Step("show",
         Request(GET, Str(<<"/", "s">>), Undefined, Undefined, Undefined),
         <<Capture(NameY, PathId),
           Capture(NameX, <<"t", "o", "S", "t", "r", "i", "n", "g">>),
           Capture(NameA, PathS)>>,
         <<Assertion(PathId, "exists", Undefined)>>,
         NoWaitUntil)
VerboseSteps == {StepCreate, StepMatch, StepBody, StepGql, StepShow}
\* bodies with an errors member: a list of errors, an object, a list with a
\* null, a string
ErrorBodies ==
    { Obj(<< <<KeyErrors, Arr(<<Obj(<< <<<<"m">>, Str(<<"e">>)>> >>)>>)>> >>),
      Obj(<< <<PathId, Num(1)>>, <<KeyErrors, Obj(<< <<<<"f">>, Str(<<"e">>)>> >>)>> >>),
      Obj(<< <<KeyErrors, Arr(<<Null>>)>> >>),
      Obj(<< <<KeyErrors, Str(<<"e">>)>> >>),
      Null }
VerboseResponses == Responses \cup {Response(200, data) : data \in ErrorBodies}

Pending(fn, args) == [fn |-> fn, args |-> args, done |-> FALSE, out |-> <<>>]
Returned(out) == [call EXCEPT !.done = TRUE, !.out = out]

InitUtil ==
    /\ context = NoContext
    /\ aiConfig = FALSE
    /\ variables = <<>>
    /\ frame = [c \in Callers |-> IdleFrame]
    /\ \/ \E op \in AssertOperators, value \in AssertValues, actual \in AssertValues :
             call = Pending("evaluateAssertion", <<Assertion(PathId, op, value), actual>>)
       \/ \E a \in ActualAssertions, response \in ActualResponses :
             call = Pending("ActualOf", <<a, response>>)
       \/ \E caps \in CaptureLists, response \in Responses, bag \in CaptureBags :
             call = Pending("capture", <<caps, response.data, bag>>)
       \/ \E root \in ExtractRoots, p \in ExtractPaths :
             call = Pending("extractValue", <<root, p>>)
       \/ \E pieces \in InterpolatePieces, bag \in InterpolateBags :
             call = Pending("interpolate", <<pieces, bag>>)
       \/ \E request \in ResolveRequests, bag \in ResolveBags :
             call = Pending("resolveVariables", <<request, bag>>)
       \/ \E step \in VerboseSteps, response \in VerboseResponses,
             bag \in CaptureBags, verbose \in BOOLEAN :
             call = Pending("afterResponse", <<step, response, bag, verbose>>)

\* evaluateAssertion(assertion, actual)
EvaluateAssertion ==
    /\ call.fn = "evaluateAssertion" /\ ~call.done
    /\ call' = Returned(evaluateAssertion(call.args[1], call.args[2]))
    /\ UNCHANGED <<context, aiConfig, variables, frame>>

\* the actual value executeStep's assertion loop selects for assertion a
SelectActual ==
    /\ call.fn = "ActualOf" /\ ~call.done
    /\ call' = Returned(ActualOf(call.args[1], call.args[2]))
    /\ UNCHANGED <<context, aiConfig, variables, frame>>

\* the capture loop of executeStep on a response body and a bag
CaptureEntriesOf ==
    /\ call.fn = "capture" /\ ~call.done
    /\ call' = Returned(CaptureFrom(call.args[1], 1, call.args[2], <<>>, call.args[3]))
    /\ UNCHANGED <<context, aiConfig, variables, frame>>

\* extractValue(obj, path)
ExtractValue ==
    /\ call.fn = "extractValue" /\ ~call.done
    /\ call' = Returned(extractValue(call.args[1], call.args[2].path))
    /\ UNCHANGED <<context, aiConfig, variables, frame>>

\* interpolate(str, variables)
Interpolate ==
    /\ call.fn = "interpolate" /\ ~call.done
    /\ call' = Returned(interpolate(Str(Spelled(call.args[1])), Obj(call.args[2])))
    /\ UNCHANGED <<context, aiConfig, variables, frame>>

\* this.resolveVariables(step.request)
ResolveVariables ==
    /\ call.fn = "resolveVariables" /\ ~call.done
    /\ call' = Returned(resolveVariables(call.args[1], Obj(call.args[2])))
    /\ UNCHANGED <<context, aiConfig, variables, frame>>

\* executeStep from the response on, in an executor built with the flag
StepAfterResponse ==
    /\ call.fn = "afterResponse" /\ ~call.done
    /\ call' = Returned(Outcome(AfterResponse(Responded(call.args[1], call.args[2]),
                                              call.args[3], call.args[4])))
    /\ UNCHANGED <<context, aiConfig, variables, frame>>

NextUtil == EvaluateAssertion \/ SelectActual \/ CaptureEntriesOf \/ ExtractValue \/ Interpolate \/ ResolveVariables \/ StepAfterResponse

SpecUtil == InitUtil /\ [][NextUtil]_vars

(***************************************************************************)
(* Properties                                                              *)
(***************************************************************************)
EndsWith(s, p) == Len(s) >= Len(p) /\ SubSeq(s, Len(s) - Len(p) + 1, Len(s)) = p
AllSucceeded(results) == \A n \in 1..Len(results) : results[n].success
OneTo(n) == [k \in 1..n |-> k]
Running(f) == f.pc \in {"http", "sleep", "pollHttp", "ai", "stepReturned"}

\* the text a captured value is written as: String(v) for a scalar, the
\* canonical JSON text for an object or array
TextOf(v) == IF IsObject(v) THEN JsonText(v) ELSE StringOf(v)

\* the results, among these, of the steps that captured under name
CapturedIn(results, name) ==
    {n \in 1..Len(results) : HasKey(results[n].captures, name)}
\* the value the latest of them captured
LastCaptured(results, name) ==
    LET ns == CapturedIn(results, name)
        last == CHOOSE n \in ns : \A m \in ns : m <= n
    IN Lookup(results[last].captures, name)
\* x was captured by an earlier step of the flow, with a defined value
HasX(f) ==
    /\ CapturedIn(f.stepResults, NameX) # {}
    /\ LastCaptured(f.stepResults, NameX) # Undefined

\* the names the steps 1..i of the flow of f capture under
CaptureNames(f, i) ==
    UNION {{f.flow[n].capture[k].name : k \in 1..Len(f.flow[n].capture)} : n \in 1..i}

\* C1: the FlowResult executeFlow returns has success = TRUE exactly when every
\* StepResult in its steps has success = TRUE (so a flow without steps succeeds)
C1_FlowSuccessIsAnd ==
    \A c \in Callers :
        frame[c].pc = "returned" =>
            (frame[c].ret[1].success <=> AllSucceeded(frame[c].ret[1].steps))
\* a returned flow whose first step succeeded and whose second failed
C1_Witness ==
    \E c \in Callers :
        /\ frame[c].pc = "returned"
        /\ Len(frame[c].ret[1].steps) = 2
        /\ frame[c].ret[1].steps[1].success
        /\ ~frame[c].ret[1].steps[2].success
        /\ ~frame[c].ret[1].success

\* C2: the steps are begun once each in declared order, step i + 1 only after
\* the StepResult of step i was recorded, a failed step stops nothing, and the
\* FlowResult holds one StepResult per declared step in declaration order
C2_StepsInOrder ==
    \A c \in Callers :
        LET f == frame[c]
        IN /\ f.started = OneTo(Len(f.started))
           /\ Running(f) =>
                 /\ f.i = Len(f.started)
                 /\ Len(f.stepResults) = f.i - 1
           /\ \A n \in 1..Len(f.stepResults) : f.stepResults[n].step = f.flow[n]
           /\ f.pc = "returned" =>
                 /\ f.started = OneTo(Len(f.flow))
                 /\ Len(f.ret[1].steps) = Len(f.flow)
                 /\ \A n \in 1..Len(f.flow) : f.ret[1].steps[n].step = f.flow[n]
\* a returned flow whose first step failed and whose second step got a response
C2_Witness ==
    \E c \in Callers :
        /\ frame[c].pc = "returned"
        /\ Len(frame[c].ret[1].steps) = 2
        /\ ~frame[c].ret[1].steps[1].success
        /\ frame[c].ret[1].steps[2].response # <<>>

\* C3: a StepResult has success = TRUE exactly when no error was thrown and
\* every recorded AssertionResult succeeded; so a step without assertions that
\* got a response succeeds whatever the status code is
C3_StepSuccess ==
    \A c \in Callers :
        frame[c].pc = "stepReturned" =>
            LET r == frame[c].result[1]
            IN /\ r.success <=> (r.error = <<>> /\ AllSucceeded(r.assertions))
               /\ (r.error = <<>> /\ r.assertions = <<>>) => r.success
\* a step without assertions that got status 500 and succeeded
C3_Witness ==
    \E c \in Callers :
        /\ frame[c].pc = "stepReturned"
        /\ frame[c].result[1].assertions = <<>>
        /\ frame[c].result[1].response # <<>>
        /\ frame[c].result[1].response[1].status = 500
        /\ frame[c].result[1].success

\* the StepResult of a step whose transport call was rejected
TransportFailure(r) ==
    /\ ~r.success
    /\ r.error # <<>> /\ r.error[1] # ""
    /\ r.response = <<>>
    /\ r.assertions = <<>>
\* C4: when the transport call of a step throws, its StepResult has success =
\* FALSE, an error string, no response and no assertion results, and every
\* remaining step of the flow is still executed and gets its own StepResult
C4_TransportThrow ==
    \A c \in Callers :
        LET f == frame[c]
        IN /\ (f.pc = "stepReturned" /\ f.i \in f.transportFailed) =>
                 TransportFailure(f.result[1])
           /\ f.pc = "returned" =>
                 \A n \in f.transportFailed :
                    /\ TransportFailure(f.ret[1].steps[n])
                    /\ Len(f.ret[1].steps) = Len(f.flow)
                    /\ \A m \in (n + 1)..Len(f.flow) : m \in DOMAIN f.started
\* a returned flow whose first step was rejected after a poll had a response,
\* and whose second step was executed
C4_Witness ==
    \E c \in Callers :
        /\ frame[c].pc = "returned"
        /\ 1 \in frame[c].transportFailed
        /\ frame[c].flow[1] = StepPoll
        /\ Len(frame[c].ret[1].steps) = 2
        /\ frame[c].ret[1].steps[2].response # <<>>

\* C5: no error of a step leaves executeStep or executeFlow: no invocation ends
\* rejected, a step that threw yields a StepResult with success = FALSE and the
\* error string, and a flow that is under way can always go on to its FlowResult
C5_NothingPropagates ==
    \A c \in Callers :
        LET f == frame[c]
        IN /\ f.pc # "rejected"
           /\ f.pc = "stepReturned" =>
                 (f.result[1].error # <<>> => ~f.result[1].success)
           /\ f.pc = "returned" =>
                 /\ Len(f.ret[1].steps) = Len(f.flow)
                 /\ \A n \in 1..Len(f.flow) :
                       f.ret[1].steps[n].error # <<>> => ~f.ret[1].success
\* a returned flow one of whose steps threw while an assertion was evaluated
C5_Witness ==
    \E c \in Callers :
        /\ frame[c].pc = "returned"
        /\ \E n \in 1..Len(frame[c].ret[1].steps) :
              frame[c].ret[1].steps[n].error = <<"Invalid regular expression">>

\* the claim C6 as written: once x is captured with the value v, the request
\* strings of a later step hold in the place of ${x} the string form of v
\* (scalar) or the canonical JSON text of v (object or array)
C6_AsClaimed ==
    \A c \in Callers :
        LET f == frame[c]
            v == LastCaptured(f.stepResults, NameX)
        IN (f.pc = "http" /\ HasX(f)) =>
              /\ StepOf(f) = StepGet =>
                    /\ Tag(f.req.url) = "str"
                    /\ EndsWith(Val(f.req.url), <<"/", "t", "/">> \o TextOf(v))
              /\ StepOf(f) = StepBody =>
                    /\ f.req.data = Str(TextOf(v))
                    /\ f.req.headers = Obj(<< <<<<"h">>, Str(<<"v">> \o TextOf(v))>> >>)
\* C6: once x is captured with the defined value v, a later step sends, in the
\* place of ${x}, the string form of v (scalar) or the canonical JSON text of
\* v (object or array) inside a longer string; a request string that is
\* exactly ${x} with v an object or array is sent as the structure v
C6_CaptureRoundTrip ==
    \A c \in Callers :
        LET f == frame[c]
            v == LastCaptured(f.stepResults, NameX)
        IN (f.pc = "http" /\ HasX(f)) =>
              /\ StepOf(f) = StepGet =>
                    /\ Tag(f.req.url) = "str"
                    /\ EndsWith(Val(f.req.url), <<"/", "t", "/">> \o TextOf(v))
              /\ StepOf(f) = StepBody =>
                    /\ f.req.data = (IF IsObject(v) THEN v ELSE Str(StringOf(v)))
                    /\ f.req.headers = Obj(<< <<<<"h">>, Str(<<"v">> \o TextOf(v))>> >>)
\* the body ${x} is sent as the object the step before captured
C6_Witness ==
    \E c \in Callers :
        /\ frame[c].pc = "http"
        /\ frame[c].i = 2
        /\ StepOf(frame[c]) = StepBody
        /\ HasX(frame[c])
        /\ CapturedIn(frame[c].stepResults, NameX) = {1}
        /\ IsObject(LastCaptured(frame[c].stepResults, NameX))
        /\ frame[c].req.data = LastCaptured(frame[c].stepResults, NameX)

\* C7: an assertion {path id, equals, "${x}"} of a later step is evaluated
\* against the value captured under x: it passes when the actual value equals
\* the captured value
C7_AssertionSeesCapture ==
    \A c \in Callers :
        LET f == frame[c]
        IN (/\ f.pc = "stepReturned"
            /\ StepOf(f) = StepGet
            /\ f.result[1].error = <<>>
            /\ HasX(f)
            /\ f.result[1].assertions[1].actual = LastCaptured(f.stepResults, NameX))
           => f.result[1].assertions[1].success

\* C8: flows run one after the other: the bag holds only names captured by the
\* steps the running flow has begun, the FlowResult's variables only names its
\* own steps capture, and ${x} in the first step of a flow finds no variable
C8_BagStartsEmpty ==
    LET f == frame[Runner]
    IN /\ f.pc # "idle" => Keys(variables) \subseteq CaptureNames(f, f.i)
       /\ f.pc = "returned" =>
             Keys(f.ret[1].variables) \subseteq CaptureNames(f, Len(f.flow))
       /\ (f.pc = "http" /\ f.i = 1 /\ StepOf(f) = StepGet) =>
             EndsWith(Val(f.req.url), TokenX)
\* a flow that started on a bag the previous flow had filled, its first step
\* resolved with ${x} in the url
C8_Witness ==
    /\ frame[Runner].dirtyStart
    /\ frame[Runner].pc = "http"
    /\ frame[Runner].i = 1
    /\ StepOf(frame[Runner]) = StepGet
    /\ variables = <<>>

\* the names the steps of the flow of f captured, as its StepResults tell
OwnCaptures(f) ==
    UNION {Keys(f.stepResults[n].captures) : n \in 1..Len(f.stepResults)}
\* C9: overlapping executeFlow invocations share no variables: a FlowResult's
\* variables hold exactly the names its own steps captured (no capture of the
\* other, none of its own lost to the start of the other), and ${x} in a flow
\* that captured no x is left as written
C9_NoSharingAcrossInvocations ==
    \A c \in Callers :
        LET f == frame[c]
        IN /\ f.pc = "returned" => Keys(f.ret[1].variables) = OwnCaptures(f)
           /\ (f.pc = "http" /\ StepOf(f) = StepGet /\ OwnCaptures(f) = {}) =>
                 EndsWith(Val(f.req.url), TokenX)

\* C10: no request is issued after a response met the waitUntil condition (when
\* the first response meets it there is no sleep and no second request), and
\* the response the step ends with is that response
C10_PollStopsWhenMet ==
    \A c \in Callers :
        LET f == frame[c]
        IN /\ f.pc \in {"sleep", "pollHttp"} => ~f.metSeen
           /\ (f.pc = "stepReturned" /\ f.metSeen /\ f.result[1].error = <<>>) =>
                 /\ PollMet(StepOf(f).waitUntil, f.result[1].response[1])
                 /\ f.result[1].response = f.response
\* a poll that ended on the response of its first retry
C10_Witness ==
    \E c \in Callers :
        /\ frame[c].pc = "stepReturned"
        /\ StepOf(frame[c]) = StepPoll
        /\ frame[c].metSeen
        /\ frame[c].sent = 2
        /\ frame[c].result[1].success

\* the poll of the step of f has ended and handed its response on
PollEnded(f) ==
    /\ f.pc = "stepReturned"
    /\ StepOf(f).waitUntil.present
    /\ f.i \notin f.transportFailed
\* C11: when the poll ends on a response that does not meet the condition, the
\* deadline has passed, the StepResult has no error and holds that last
\* response, the captures and the assertions are taken from it, the step
\* succeeds exactly when its assertions do, and the flow goes on to return one
\* StepResult per step
C11_TimeoutIsNoError ==
    \A c \in Callers :
        LET f == frame[c]
        IN /\ (PollEnded(f) /\ ~f.metSeen) =>
                 LET r == f.result[1]
                     step == StepOf(f)
                 IN /\ f.elapsed >= Timeout(step.waitUntil)
                    /\ r.error = <<>>
                    /\ r.response = f.response
                    /\ \A k \in 1..Len(step.capture) :
                          Lookup(r.captures, step.capture[k].name)
                             = extractValue(f.response[1].data, step.capture[k].path)
                    /\ Len(r.assertions) = Len(step.assertions)
                    /\ \A k \in 1..Len(r.assertions) :
                          r.assertions[k].actual
                             = extractValue(f.response[1].data, step.assertions[k].path)
                    /\ r.success <=> AllSucceeded(r.assertions)
           /\ f.pc = "returned" => Len(f.ret[1].steps) = Len(f.flow)
\* a returned flow whose first step polled to the timeout, has no error and
\* failed by its assertion, and whose second step got a response
C11_Witness ==
    \E c \in Callers :
        LET f == frame[c]
        IN /\ f.pc = "returned"
           /\ Len(f.flow) = 2
           /\ f.flow[1] = StepPoll
           /\ f.ret[1].steps[1].error = <<>>
           /\ ~f.ret[1].steps[1].success
           /\ ~PollMet(StepPoll.waitUntil, f.ret[1].steps[1].response[1])
           /\ f.ret[1].steps[2].response # <<>>

\* the claim C12 as written: the poll ends no later than the timeout plus the
\* latency of one request
C12_AsClaimed ==
    \A c \in Callers :
        LET f == frame[c]
        IN PollEnded(f) => f.elapsed <= Timeout(StepOf(f).waitUntil) + f.latency
\* C12: no sleep starts at or after the deadline, so a retry is issued before
\* the deadline plus one interval, and the poll ends before the timeout plus
\* one interval plus the latency of its last request
C12_PollDeadline ==
    \A c \in Callers :
        LET f == frame[c]
        IN /\ f.pc = "sleep" => f.elapsed < Timeout(StepOf(f).waitUntil)
           /\ f.pc = "pollHttp" =>
                 f.elapsed < Timeout(StepOf(f).waitUntil) + Interval(StepOf(f).waitUntil)
           /\ PollEnded(f) =>
                 f.elapsed < Timeout(StepOf(f).waitUntil)
                             + Interval(StepOf(f).waitUntil) + f.latency
\* a poll that ended more than one request's latency after the deadline
C12_Witness ==
    \E c \in Callers :
        /\ PollEnded(frame[c])
        /\ frame[c].sent > 1
        /\ frame[c].elapsed > Timeout(StepOf(frame[c]).waitUntil) + frame[c].latency

\* the claim C13 as written: once the first response is in, the poll ends on a
\* response that meets the condition or at the timeout, and its response goes
\* on to the captures and assertions
C13_AsClaimed ==
    \A c \in Callers :
        LET f == frame[c]
        IN (f.pc = "stepReturned" /\ StepOf(f).waitUntil.present /\ f.response # <<>>) =>
              /\ f.metSeen \/ f.elapsed >= Timeout(StepOf(f).waitUntil)
              /\ f.result[1].response # <<>>
\* C13: once the first response is in, the poll ends in one of three ways: on
\* a response that meets the condition, at the timeout (both hand the last
\* response to the captures and assertions), or on a retry the transport
\* rejects, which the catch block turns into a failed StepResult with the
\* error, no response and no assertion results
C13_PollEnds ==
    \A c \in Callers :
        LET f == frame[c]
        IN (f.pc = "stepReturned" /\ StepOf(f).waitUntil.present /\ f.response # <<>>) =>
              IF f.i \in f.transportFailed
              THEN f.sent >= 2 /\ TransportFailure(f.result[1])
              ELSE /\ f.metSeen \/ f.elapsed >= Timeout(StepOf(f).waitUntil)
                   /\ f.result[1].error = <<>>
                   /\ f.result[1].response = f.response
\* a poll whose first retry was rejected before the deadline
C13_Witness ==
    \E c \in Callers :
        LET f == frame[c]
        IN /\ f.pc = "stepReturned"
           /\ StepOf(f).waitUntil.present
           /\ f.response # <<>>
           /\ f.i \in f.transportFailed
           /\ f.sent = 2
           /\ ~f.metSeen
           /\ f.elapsed < Timeout(StepOf(f).waitUntil)

\* the member of the response body under a one-segment path
BodyAt(response, path) ==
    IF Tag(response.data) = "obj" THEN Lookup(Val(response.data), path) ELSE Undefined

\* C14: the actual value of an assertion is the HTTP status code for the path
\* httpStatus, whatever the expected value and the body are; for the path
\* status it is the HTTP status code exactly when the expected value is a
\* number, and otherwise the body's status member; for any other path it is
\* the value extracted from the response body.
C14_ActualSelection ==
    (call.fn = "ActualOf" /\ call.done) =>
        LET a == call.args[1]
            response == call.args[2]
        IN call.out =
              IF a.path = PathHttpStatus THEN Num(response.status)
              ELSE IF a.path = PathStatus /\ Tag(a.value) = "num"
              THEN Num(response.status)
              ELSE BodyAt(response, a.path)

\* path status with the expected value "200" on a body whose status member
\* is "ok": the actual value is the body's member, not the status code
C14_Witness ==
    /\ call.fn = "ActualOf" /\ call.done
    /\ call.args[1].path = PathStatus
    /\ Tag(call.args[1].value) = "str"
    /\ call.args[2].status = 200
    /\ call.out = Str(<<"o", "k">>)

\* the url the step of f declares, ${x} replaced by the text of the bag's x
\* when the bag holds a defined x
InterpolatedUrl(f) ==
    LET url == Val(Lookup(Val(StepOf(f).request), KeyUrl))
        x == Lookup(variables, NameX)
    IN IF EndsWith(url, TokenX) /\ x # Undefined
       THEN SubSeq(url, 1, Len(url) - Len(TokenX)) \o TextOf(x)
       ELSE url
\* the base URLs whose {key} starts the url u
KeysAhead(u, baseUrls) ==
    {n \in 1..Len(baseUrls) : StartsWith(u, <<"{">> \o baseUrls[n][1] \o <<"}">>)}
\* the resolution of the url u under the base URLs (none without a context)
ResolvedUrl(u, baseUrls) ==
    IF StartsWith(u, Http) \/ StartsWith(u, Https) THEN u
    ELSE IF KeysAhead(u, baseUrls) # {}
    THEN LET n == CHOOSE n \in KeysAhead(u, baseUrls) : TRUE
         IN Val(baseUrls[n][2])
            \o SubSeq(u, Len(baseUrls[n][1]) + 3, Len(u))
    ELSE IF baseUrls # <<>> THEN Val(baseUrls[1][2]) \o u
    ELSE u

\* C15: the url a step requests is its declared url with ${x} interpolated
\* first and then resolved: unchanged when it starts with http:// or https://;
\* else baseUrls[key] followed by rest when it is {key}rest and baseUrls has
\* key; else the first base URL followed by the url when the context has a
\* base URL; else the url as it is.  So {a}/t/${x} with x = "t1" ends with
\* /t/t1.
C15_ResolvedUrl ==
    \A c \in Callers :
        LET f == frame[c]
        IN f.pc = "http" =>
              /\ f.req.url = Str(ResolvedUrl(InterpolatedUrl(f), context[2]))
              /\ (StepOf(f) = StepGet /\ Lookup(variables, NameX) = Str(<<"t", "1">>)) =>
                    EndsWith(Val(f.req.url), <<"/", "t", "/", "t", "1">>)

\* {a}/t/${x} with x = "t1" and the base URL a = http://h is requested as
\* http://h/t/t1
C15_Witness ==
    \E c \in Callers :
        /\ frame[c].pc = "http"
        /\ StepOf(frame[c]) = StepGet
        /\ context = TheContext
        /\ Lookup(variables, NameX) = Str(<<"t", "1">>)
        /\ frame[c].req.url = Str(BaseA \o <<"/", "t", "/", "t", "1">>)

\* C16: evaluateAssertion never throws: for every operator, actual value and
\* expected value, a matches pattern that is no regular expression included,
\* it returns an AssertionResult
C16_NeverThrows ==
    (call.fn = "evaluateAssertion" /\ call.done) =>
        /\ ~IsThrow(call.out)
        /\ call.out[2].assertion = call.args[1]
        /\ call.out[2].actual = call.args[2]

\* deep structural equality of two values: equal scalars of the same type,
\* arrays equal element by element, objects with the same keys bound to
\* equal values
RECURSIVE DeepEqual(_, _)
DeepEqual(a, b) ==
    IF Tag(a) # Tag(b) THEN FALSE
    ELSE CASE Tag(a) = "arr" ->
                 /\ Len(Val(a)) = Len(Val(b))
                 /\ \A n \in 1..Len(Val(a)) : DeepEqual(Val(a)[n], Val(b)[n])
           [] Tag(a) = "obj" ->
                 /\ Keys(Val(a)) = Keys(Val(b))
                 /\ \A k \in Keys(Val(a)) :
                       DeepEqual(Lookup(Val(a), k), Lookup(Val(b), k))
           [] Tag(a) \in {"null", "undefined"} -> TRUE
           [] OTHER -> Val(a) = Val(b)

\* C17: equals succeeds exactly when the actual and the expected value are
\* deeply structurally equal, whatever the order an object's keys are held
\* in; an undefined actual value never equals a defined expected value
C17_EqualsIsDeepEquality ==
    (call.fn = "evaluateAssertion" /\ call.done /\ call.args[1].operator = "equals") =>
        LET expected == call.args[1].value
            actual == call.args[2]
        IN /\ ~IsThrow(call.out)
           /\ (actual # Undefined /\ expected # Undefined) =>
                 (call.out[2].success <=> DeepEqual(actual, expected))
           /\ (actual = Undefined /\ expected # Undefined) => ~call.out[2].success

\* actual is a string that has String(expected) as a substring, or an array
\* that has an element equal to expected by value
ContainsByValue(actual, expected) ==
    \/ Tag(actual) = "str" /\ Includes(Val(actual), StringOf(expected))
    \/ Tag(actual) = "arr"
          /\ \E n \in 1..Len(Val(actual)) : DeepEqual(Val(actual)[n], expected)

\* C18: contains succeeds exactly when the actual value is a string that has
\* String(expected) as a substring or an array that has an element equal to
\* expected by value, scalar or structured; notContains succeeds exactly when
\* contains fails, so also when actual is neither a string nor an array
C18_ContainsByValue ==
    (call.fn = "evaluateAssertion" /\ call.done
        /\ call.args[1].operator \in {"contains", "notContains"}) =>
        /\ ~IsThrow(call.out)
        /\ call.out[2].success =
              (IF call.args[1].operator = "contains"
               THEN ContainsByValue(call.args[2], call.args[1].value)
               ELSE ~ContainsByValue(call.args[2], call.args[1].value))

\* the step with the ai-evaluate assertion returned, its request having got a
\* response
AiEnded(f) ==
    /\ f.pc = "stepReturned"
    /\ StepOf(f) = StepAi
    /\ f.i \notin f.transportFailed

C20_BagFrame ==
    [][\A c \in Callers :
          LET f == frame[c]
              g == frame'[c]
          IN (f.pc # "idle" /\ g # f) =>
                /\ Keys(variables) \subseteq Keys(variables')
                /\ f.pc \in {"sleep", "ai", "stepReturned", "returned"} =>
                      variables' = variables
                /\ g.pc \in {"sleep", "pollHttp"} => variables' = variables
                /\ g.i \in g.transportFailed => variables' = variables
                /\ variables' # variables =>
                      /\ f.pc \in {"http", "pollHttp"}
                      /\ g.pc \in {"ai", "stepReturned"}
                      /\ g.captures # <<>>
                /\ \A name \in Keys(variables') :
                      Lookup(variables', name) =
                         IF f.pc \in {"http", "pollHttp"} /\ HasKey(g.captures, name)
                         THEN Lookup(g.captures, name)
                         ELSE Lookup(variables, name)
      ]_vars

\* the second step, which captures nothing, went through request, AI
\* evaluation and assertions, and the bag holds what the first step captured
C20_Witness ==
    \E c \in Callers :
        LET f == frame[c]
        IN /\ f.pc = "stepReturned"
           /\ f.i = 2
           /\ f.flow = <<StepCreate, StepAi>>
           /\ Len(f.result[1].assertions) = 2
           /\ f.result[1].captures = <<>>
           /\ variables = << <<NameX, Str(<<"t", "1">>)>> >>
           /\ variables = f.stepResults[1].captures

\* two key-value lists are the same mapping
SameMapping(kvs1, kvs2) ==
    /\ Keys(kvs1) = Keys(kvs2)
    /\ \A k \in Keys(kvs1) : Lookup(kvs1, k) = Lookup(kvs2, k)
\* the permutations of 1..n
Orders(n) == {p \in [1..n -> 1..n] : \A a, b \in 1..n : p[a] = p[b] => a = b}
\* the capture list caps in the order p
Permuted(caps, p) == [n \in 1..Len(caps) |-> caps[p[n]]]
\* every permutation of caps gives the same captures and the same bag
OrderFree(caps, data, bag, out) ==
    \A p \in Orders(Len(caps)) :
        /\ SameMapping(out[1], CaptureFrom(Permuted(caps, p), 1, data, <<>>, bag)[1])
        /\ SameMapping(out[2], CaptureFrom(Permuted(caps, p), 1, data, <<>>, bag)[2])
\* no two entries of caps have the same name
DistinctNames(caps) ==
    \A a, b \in 1..Len(caps) : caps[a].name = caps[b].name => a = b
\* the last entry of caps under the name
LastEntry(caps, name) ==
    caps[CHOOSE n \in 1..Len(caps) :
            /\ caps[n].name = name
            /\ \A m \in 1..Len(caps) : caps[m].name = name => m <= n]

\* the claim C21 as written: every permutation of a capture list gives the
\* same captures and the same bag
C21_AsClaimed ==
    (call.fn = "capture" /\ call.done) =>
        OrderFree(call.args[1], call.args[2], call.args[3], call.out)
\* C21: the order of capture entries with pairwise distinct names has no
\* effect on StepResult.captures and on the bag; of the entries that share a
\* name the last one declared decides the value, and a name no entry has keeps
\* the value the bag held
C21_CaptureOrder ==
    (call.fn = "capture" /\ call.done) =>
        LET caps == call.args[1]
            data == call.args[2]
            bag == call.args[3]
            names == {caps[n].name : n \in 1..Len(caps)}
        IN /\ DistinctNames(caps) => OrderFree(caps, data, bag, call.out)
           /\ Keys(call.out[1]) = names
           /\ Keys(call.out[2]) = names \cup Keys(bag)
           /\ \A name \in names :
                 /\ Lookup(call.out[1], name)
                       = ExtractParts(data, <<LastEntry(caps, name).path>>, 1)
                 /\ Lookup(call.out[2], name) = Lookup(call.out[1], name)
           /\ \A name \in Keys(bag) \ names :
                 Lookup(call.out[2], name) = Lookup(bag, name)
\* x and y captured in one step from different paths
C21_Witness ==
    /\ call.fn = "capture" /\ call.done
    /\ call.args[1] = <<Capture(NameY, PathS), Capture(NameX, PathId)>>
    /\ Lookup(call.out[2], NameX) = Str(<<"t", "1">>)
    /\ Lookup(call.out[2], NameY) = Done

\* the value under the segments from k on, by the rules of the claim: a
\* null or undefined value, a missing key, an index on what is no array and
\* an index out of bounds give undefined
RECURSIVE Descend(_, _, _)
Descend(v, segments, k) ==
    IF k > Len(segments) THEN v
    ELSE IF Tag(v) # "obj" \/ ~HasKey(Val(v), segments[k][1]) THEN Undefined
    ELSE LET member == Lookup(Val(v), segments[k][1])
             idx == segments[k][2]
         IN IF idx < 0 THEN Descend(member, segments, k + 1)
            ELSE IF Tag(member) = "arr" /\ idx < Len(Val(member))
            THEN Descend(Val(member)[idx + 1], segments, k + 1)
            ELSE Undefined
\* the first segment that names no own key of the value it is read from, 0 if
\* the descent ends before
RECURSIVE MissAt(_, _, _)
MissAt(v, segments, k) ==
    IF k > Len(segments) \/ Tag(v) \in {"null", "undefined"} THEN 0
    ELSE IF Tag(v) # "obj" \/ ~HasKey(Val(v), segments[k][1]) THEN k
    ELSE LET member == Lookup(Val(v), segments[k][1])
             idx == segments[k][2]
         IN IF idx < 0 THEN MissAt(member, segments, k + 1)
            ELSE IF Tag(member) = "arr" /\ idx < Len(Val(member))
            THEN MissAt(Val(member)[idx + 1], segments, k + 1)
            ELSE 0

RECURSIVE Substituted(_, _)
Substituted(pieces, bag) ==
    IF pieces = <<>> THEN <<>>
    ELSE (IF pieces[1][1] = "tok" /\ Lookup(bag, pieces[1][2]) # Undefined
          THEN TextOf(Lookup(bag, pieces[1][2]))
          ELSE IF pieces[1][1] = "tok"
          THEN <<"$", "{">> \o pieces[1][2] \o <<"}">>
          ELSE pieces[1][2])
         \o Substituted(Tail(pieces), bag)

\* C23: interpolate leaves every ${name} token whose name has no value in the
\* variables exactly as written and substitutes every other token of the same
\* string, so a string with several tokens is partially resolved
C23_UnresolvedLeft ==
    (call.fn = "interpolate" /\ call.done) =>
        call.out = Str(Substituted(call.args[1], call.args[2]))
\* a${x}b${n} with x = "t1" and no n is at1b${n}
C23_Witness ==
    /\ call.fn = "interpolate" /\ call.done
    /\ Len(call.args[1]) = 4
    /\ call.out = Str(<<"a", "t", "1", "b", "$", "{", "n", "}">>)

\* no dollar sign in a text
NoDollar(text) == \A k \in 1..Len(text) : text[k] # "$"
\* a value of the bag holds a token
HoldsToken(v) ==
    Tag(v) = "str" /\ \E i \in 1..Len(Val(v)) : TokenEnd(Val(v), i) > 0
\* no variable the pieces refer to has a value that holds a token
NoTokenInValues(pieces, bag) ==
    \A n \in 1..Len(pieces) :
        pieces[n][1] = "tok" => ~HoldsToken(Lookup(bag, pieces[n][2]))
\* neither the text outside the tokens nor the text written for a token has a
\* dollar sign
NoDollarWritten(pieces, bag) ==
    \A n \in 1..Len(pieces) :
        IF pieces[n][1] = "lit" THEN NoDollar(pieces[n][2])
        ELSE Lookup(bag, pieces[n][2]) = Undefined
             \/ NoDollar(TextOf(Lookup(bag, pieces[n][2])))
\* interpolating the result once more changes nothing
Idempotent == interpolate(call.out, Obj(call.args[2])) = call.out

\* C24 as stated: interpolate(interpolate(s, vars), vars) = interpolate(s, vars)
\* whenever no variable s refers to has a value that holds a ${...} token
C24_AsClaimed ==
    (call.fn = "interpolate" /\ call.done
     /\ NoTokenInValues(call.args[1], call.args[2])) => Idempotent
\* C24: interpolate(interpolate(s, vars), vars) = interpolate(s, vars) whenever
\* neither the text of s outside its tokens nor the text substituted for a
\* token of s has a dollar sign; a token can otherwise be completed by the
\* first pass (${${a}} with a = "x") and resolved by the second
C24_Idempotent ==
    (call.fn = "interpolate" /\ call.done
     /\ NoDollarWritten(call.args[1], call.args[2])) => Idempotent
\* ${n}${x} with x = "t1" and no n: one token resolved, one left
C24_Witness ==
    /\ call.fn = "interpolate" /\ call.done
    /\ NoDollarWritten(call.args[1], call.args[2])
    /\ call.out = Str(<<"$", "{", "n", "}", "t", "1">>)

\* the places of a value: the positions to follow from the root, for the value
\* itself, every element of an array and every member of an object, at any depth
RECURSIVE Places(_)
Places(v) ==
    {<<>>} \cup
    (IF Tag(v) \in {"arr", "obj"}
     THEN UNION { { <<k>> \o p : p \in Places(IF Tag(v) = "arr" THEN Val(v)[k]
                                                ELSE Val(v)[k][2]) } :
                  k \in 1..Len(Val(v)) }
     ELSE {})
\* the value at a place
RECURSIVE At(_, _)
At(v, place) ==
    IF place = <<>> THEN v
    ELSE At(IF Tag(v) = "arr" THEN Val(v)[place[1]] ELSE Val(v)[place[1]][2],
            Tail(place))
\* the keys of an object, in order
KeysOf(v) == [k \in 1..Len(Val(v)) |-> Val(v)[k][1]]
\* what a string l of the request has become, r being its interpolation
StringResolved(l, o, r, bag) ==
    /\ (StartsWith(Trim(Val(r)), <<"{">>) \/ StartsWith(Trim(Val(r)), <<"[">>))
       /\ JSONparse(Val(r))[1] = "ok" => o = JSONparse(Val(r))[2]
    /\ JSONparse(Val(r))[1] # "ok" => o = r
    /\ ~(StartsWith(Val(r), <<"{">>) \/ StartsWith(Val(r), <<"[">>))
       /\ ~StartsWith(Val(r), <<" ">>) => o = r
    /\ l = Str(TokenX) /\ IsObject(Lookup(bag, NameX)) => o = Lookup(bag, NameX)
\* what the value l at a place of the request has become
PlaceResolved(l, o, bag) ==
    CASE Tag(l) = "str" -> StringResolved(l, o, interpolate(l, Obj(bag)), bag)
      [] Tag(l) = "arr" -> Tag(o) = "arr" /\ Len(Val(o)) = Len(Val(l))
      [] Tag(l) = "obj" -> Tag(o) = "obj" /\ KeysOf(o) = KeysOf(l)
      [] OTHER -> o = l

\* C25: resolveVariables interpolates every string of the request at any depth
\* (url, header values, body, nested arrays and objects) and leaves every other
\* scalar as it is; an interpolated string that starts with { or [ and parses
\* as JSON is replaced by what it parses to, so a field that is exactly ${x}
\* with x bound to an object or an array is that structure, and a string that
\* does not parse is kept as interpolated
C25_StructuralResolution ==
    (call.fn = "resolveVariables" /\ call.done) =>
        \A place \in Places(call.args[1]) :
            PlaceResolved(At(call.args[1], place), At(call.out, place), call.args[2])
\* the array body [${x}, [${o}], {k: "[${x}]"}] with x = {k: 1} and
\* o = [1, "t"]: structures at depth 1 and 2, and [{"k":1}] parsed at depth 2
C25_Witness ==
    /\ call.fn = "resolveVariables" /\ call.done
    /\ Lookup(call.args[2], NameX) = ObjK
    /\ Lookup(Val(call.out), KeyBody)
         = Arr(<< ObjK, Arr(<<Arr(<<Num(1), Str(<<"t">>)>>)>>),
                  Obj(<< <<<<"k">>, Arr(<<ObjK>>)>> >>) >>)

\* the step of f got a response and is at its assertions or past them
AtAssertions(f) ==
    /\ f.pc \in {"ai", "stepReturned"}
    /\ f.i \notin f.transportFailed
    /\ f.response # <<>>
\* the entries of caps are in the mapping, each name with the value at the
\* path of its last entry in data
CapturedFrom(caps, data, mapping) ==
    \A n \in 1..Len(caps) :
        /\ HasKey(mapping, caps[n].name)
        /\ Lookup(mapping, caps[n].name)
             = extractValue(data, LastEntry(caps, caps[n].name).path)

\* C26: the captures of a step are extracted from the body of the response the
\* step ends with (with waitUntil the last response the poll received) and
\* are in the bag when the assertions of the step are evaluated; they are in
\* the StepResult and stay in the bag when assertions of the step fail, and
\* the names captured by the steps before are still in the bag
C26_CaptureThenAssert ==
    \A c \in Callers :
        LET f == frame[c]
        IN AtAssertions(f) =>
              /\ CapturedFrom(StepOf(f).capture, f.response[1].data, variables)
              /\ StepOf(f).waitUntil.present =>
                    (f.metSeen <=> PollMet(StepOf(f).waitUntil, f.response[1]))
              /\ (f.pc = "stepReturned" /\ f.result[1].error = <<>>) =>
                    /\ f.result[1].response = f.response
                    /\ CapturedFrom(StepOf(f).capture, f.response[1].data,
                                    f.result[1].captures)
                    /\ Len(f.result[1].assertions) = Len(StepOf(f).assertions)
              /\ \A n \in 1..Len(f.stepResults) :
                    Keys(f.stepResults[n].captures) \subseteq Keys(variables)
\* the polled step returned after a retry, its condition unmet and its
\* assertion failed, as the second step of a flow whose first step failed an
\* assertion too: x is in the bag, from the last response of the poll
C26_Witness ==
    \E c \in Callers :
        LET f == frame[c]
        IN /\ AtAssertions(f)
           /\ f.pc = "stepReturned"
           /\ f.flow = <<StepCreate, StepPoll>>
           /\ f.i = 2
           /\ f.sent >= 2
           /\ ~f.metSeen
           /\ ~f.stepResults[1].success
           /\ f.result[1].error = <<>>
           /\ ~f.result[1].assertions[1].success
           /\ variables = << <<NameX, ObjK>> >>

\* C27: the verbose flag only adds log output: on the same step, the same
\* response and the same bag, an executor with verbose = true and one with
\* verbose = false give the same success, error, captures, assertions and
\* variables
C27_VerboseOnlyLogs ==
    (call.fn = "afterResponse" /\ call.done) =>
        call.out = Outcome(AfterResponse(Responded(call.args[1], call.args[2]),
                                         call.args[3], ~call.args[4]))

\* the step of f ends with an error in the step to g: thrown while the step
\* awaited a response or handled one, or before its request was sent
ErrorEnds(f, g) ==
    /\ g.pc = "stepReturned"
    /\ g.result[1].error # <<>>
    /\ \/ f.pc \in {"http", "pollHttp"} /\ g.i = f.i
       \/ f.pc = "stepReturned" /\ g.i = f.i + 1
\* bag with every capture of caps from data written over it
Overwritten(caps, data, before, after) ==
    /\ CapturedFrom(caps, data, after)
    /\ Keys(after) = Keys(before) \cup {caps[n].name : n \in 1..Len(caps)}
    /\ \A name \in Keys(before) :
          (\A n \in 1..Len(caps) : caps[n].name # name) =>
              Lookup(after, name) = Lookup(before, name)

\* every name reads the same in the two bags, a name a bag has not reading
\* undefined
SameReads(before, after) ==
    \A name \in Keys(before) \cup Keys(after) :
        Lookup(after, name) = Lookup(before, name)

TokenFree(l) == Tag(l) = "str" /\ ~HoldsToken(l)
\* the text, blanks around it apart, starts with a brace or a bracket and is
\* JSON
ParsesAsStructure(l) ==
    /\ Trim(Val(l)) # <<>>
    /\ Trim(Val(l))[1] \in {"{", "["}
    /\ JSONparse(Val(l))[1] = "ok"

\* the claim C29 as written: every string of the request without a token
\* comes out of the resolution as the same string
C29_AsClaimed ==
    (call.fn = "resolveVariables" /\ call.done) =>
        \A place \in Places(call.args[1]) :
            TokenFree(At(call.args[1], place)) =>
                At(call.out, place) = At(call.args[1], place)
\* C29: a string of the request without a ${...} token comes out of the
\* resolution as the same string value, whatever the bag holds, unless it
\* starts (blanks apart) with { or [ and parses as JSON: then the parsed
\* structure takes its place
C29_TokenFreeKept ==
    (call.fn = "resolveVariables" /\ call.done) =>
        \A place \in Places(call.args[1]) :
            TokenFree(At(call.args[1], place)) =>
                At(call.out, place) =
                    IF ParsesAsStructure(At(call.args[1], place))
                    THEN JSONparse(Val(At(call.args[1], place)))[2]
                    ELSE At(call.args[1], place)
\* the body {t: "[]", p: "${x", q: "1", e: ""} with x bound: t is an empty
\* list, the other fields are as declared
C29_Witness ==
    /\ call.fn = "resolveVariables" /\ call.done
    /\ call.args[2] # <<>>
    /\ Lookup(Val(call.out), KeyBody)
         = Obj(<< <<<<"t">>, Arr(<<>>)>>, <<<<"p">>, Str(<<"$", "{", "x">>)>>,
                  <<<<"q">>, Str(<<"1">>)>>, <<<<"e">>, Str(<<>>)>> >>)

(***************************************************************************)
(* The poll on its own: flows of one polled step, every request of which    *)
(* gets a response.                                                         *)
(***************************************************************************)
\* GET http://h/s polled until s equals "D", with this timeout and interval
\* (0: absent)
StepPollWith(timeout, interval) ==
    Step("poll",
         Request(GET, Str(Http \o <<"h", "/", "s">>), Undefined, Undefined, Undefined),
         <<Capture(NameX, PathId)>>,
         <<Assertion(PathS, "equals", Done)>>,
         WaitUntil(PathS, "equals", Done, timeout, interval))
\* a timeout that is no multiple of the interval, one that is, the defaults,
\* and an interval longer than the timeout
PollSteps ==
    { StepPollWith(PollTimeout, PollInterval),
      StepPollWith(2 * PollInterval, PollInterval),
      StepPollWith(0, 0),
      StepPollWith(1, PollTimeout) }

NextPoll ==
    \/ \E step \in PollSteps : StartFlow(Runner, <<step>>)
    \/ \E response \in Responses : HttpReturn(Runner, response)
    \/ SleepDone(Runner)
    \/ \E response \in Responses, latency \in 0..MaxLatency :
          PollHttpReturn(Runner, response, latency)
    \/ ResumeFlow(Runner)
    \/ TakeResult(Runner)

\* every timer fires, and every request completes: none stays in flight
\* for ever
SpecPoll ==
    /\ Init
    /\ [][NextPoll]_vars
    /\ WF_vars(SleepDone(Runner))
    /\ []<>(frame[Runner].pc # "http")
    /\ []<>(frame[Runner].pc # "pollHttp")

\* a / b rounded up
CeilDiv(a, b) == (a + b - 1) \div b
\* 1 + ceil(timeout / interval), with the defaults for what is absent
PollBound(w) ==
    1 + CeilDiv(IF w.timeout = 0 THEN DefaultTimeout ELSE w.timeout,
                IF w.interval = 0 THEN DefaultInterval ELSE w.interval)
\* a request of the caller is in flight
InFlight(f) == f.pc \in {"http", "pollHttp"}
\* the polled step of the runner has not returned yet
PollRunning == frame[Runner].pc \in {"http", "sleep", "pollHttp"}
PollReturned == frame[Runner].pc = "stepReturned"
\* the requests of a step never exceed the bound
WithinBound ==
    \A c \in Callers :
        frame[c].pc \notin {"idle", "returned"} =>
            frame[c].sent <= PollBound(StepOf(frame[c]).waitUntil)
\* a request is issued only while none is in flight, one at a time
OneAtATime ==
    \A c \in Callers :
        /\ (InFlight(frame'[c]) /\ frame'[c] # frame[c]) =>
              /\ ~InFlight(frame[c])
              /\ frame'[c].sent = IF frame[c].pc = "sleep" THEN frame[c].sent + 1
                                  ELSE 1
        /\ frame'[c].sent > frame[c].sent => InFlight(frame'[c])

\* C30: when every sleep advances the clock by the interval at least and every
\* request completes, a step with waitUntil returns, having issued at most
\* 1 + ceil(timeout / interval) requests (30000 and 2000 standing for an
\* absent timeout and interval), and never a request while another is in
\* flight
C30_PollBounded ==
    /\ []WithinBound
    /\ [][OneAtATime]_vars
    /\ PollRunning ~> PollReturned
\* the poll with the default timeout and interval returned on the deadline,
\* after the initial request and 15 retries, the condition unmet
C30_Witness ==
    /\ PollReturned
    /\ StepOf(frame[Runner]) = StepPollWith(0, 0)
    /\ ~frame[Runner].metSeen
    /\ frame[Runner].sent = 16
    /\ frame[Runner].sent = PollBound(StepOf(frame[Runner]).waitUntil)

====
